---------------------------- MODULE Spec2Model ----------------------------
(***************************************************************************)
(* Orchestration engine of times1000: the in-memory Agent / Plan / Step    *)
(* state machine (src/core/Agent.ts, src/core/Plan.ts, PlanGenerator.ts)   *)
(* and the persisted Agent / Plan / Step records driven by the approve     *)
(* route, the BackgroundProcessor and plan-service's executeAiProcessing.  *)
(*                                                                         *)
(* Spec     : one Agent object driven by an arbitrary caller of its API.   *)
(* SpecOrch : one persisted agent with one persisted plan, the approve     *)
(*            route, the Orchestrator's approved-plan sweep and the        *)
(*            executions they dispatch.                                    *)
(* SpecQueue: the Orchestrator's ticks and its plan generation queue.      *)
(* SpecGateway: the LLM Gateway's chatCompletion, the Request Logger and   *)
(*            plan generation (services/llm, PlanGenerator, plan-service). *)
(***************************************************************************)
EXTENDS Integers, Sequences, FiniteSets, TLC

\* ------------------------------------------------------------- bounds
\* Plans one Agent object generates in a run.
MaxPlans == 2
\* Steps of a generated plan (planData.steps.length).
MaxSteps == 2
\* receiveCommand calls suspended in `await generatePlan` at one time.
MaxGen == 2
\* executePlan calls suspended in `await this.executeStep` at one time.
MaxExec == 1
\* executePlan calls in progress at once on the Agent whose calls overlap
MaxOverlap == 2
\* commands sent to the agent whose plan is approved and executed
MaxSameCommands == 1
\* timers that are set at once
MaxTimers == 2
\* executeAiProcessing instances running at one time.
MaxProcs == 2
\* POST /:planId/approve requests in a run.
MaxApprovals == 1
\* Plan generation requests queued in a run.
MaxRequests == 2
\* Gateway calls and plan generations made
MaxSessions == 1
\* token counts of a priced request, in units of 1K tokens
MaxTokens == 2
\* receiveCommand calls of the command-recording Agent suspended at once
MaxPending == 3
\* EventService.emit calls made
MaxEmits == 3
\* Steps one Plan holds at once
MaxPlanSteps == 5

\* ------------------------------------------------------------- values
\* src/types/agent.ts AgentStatus (plan_pending is never assigned).
AgentStatuses == {"idle", "planning", "awaiting_approval", "executing", "error"}
\* src/core/Plan.ts PlanStatus.
PlanStatuses ==
  {"draft", "awaiting_approval", "approved", "executing", "completed", "failed", "rejected"}
\* src/core/Plan.ts StepStatus.
StepStatuses == {"pending", "in_progress", "completed", "failed"}

\* currentPlan = null.
NoPlan == 0

VARIABLES
  \* ---- the Agent object (src/core/Agent.ts)
  status,       \* Agent.status
  currentPlan,  \* Agent.currentPlan: NoPlan or an index into plans
  plans,        \* every PlanImpl created so far, in creation order
  pendingGen,   \* receiveCommand calls suspended at `await generatePlan(...)`
  execs,        \* executePlan calls: slot -> position in the for-of loop
  lastCall,     \* what the latest step returned or threw to a caller
  emitted,      \* the events the latest step emitted, in order
  doneLog,      \* step / plan completion events of the executePlan that returned last
  \* ---- the persisted records and the work dispatched on them
  dbAgent,      \* agents.status
  dbPlan,       \* plans.status of the agent's latest plan
  dbSteps,      \* plan_steps.status, ORDER BY position
  procs,        \* executeAiProcessing instances: slot -> position in the code
  tick,         \* position of the Orchestrator's processPendingTasks
  route,        \* position of the POST /:planId/approve handler
  approvals,    \* approve requests received so far
  ioEmitted,    \* the socket events the latest step broadcast
  \* ---- the plan generation queue and the second agent its requests are for
  queue,        \* planGenerationQueue: the requests waiting, oldest first
  gens,         \* per requestId: where processPlanGenerationQueue is with the request it took
  otherAgent,   \* agents.status of the agent the queued commands are for
  otherPlans,   \* number of plans persisted for that agent
  \* ---- what an observer of the Orchestrator has seen
  taken,        \* requestIds in the order they were taken from the queue
  tickTaken,    \* number of requests the latest tick has taken from the queue
  ran,          \* the sweeps the latest tick has started, in order
  dispatched,   \* number of executeAiProcessing calls made for the approved plan
  faulted,      \* whether a datastore or provider call has failed so far
  llmFailed,    \* the executeAiProcessing instances in which a provider call has failed
  \* ---- the LLM Gateway, the Request Logger and plan generation
  env,          \* process.env and the configuration read at load time
  gw,           \* the chatCompletion call in progress: position, request, calls made
  outcome,      \* what chatCompletion returned or threw to its caller
  logger,       \* the logLLMRequest call in progress and the writes it has attempted
  log,          \* llm_logs: the Request Log rows, oldest first
  planGen,      \* the plan generation in progress: position, caller, result
  \* ---- what an observer of the Gateway has seen
  attempts,     \* reasoning-provider call attempts made so far
  sinkFaulted,  \* whether a write of a Request Log row has failed so far
  sessions,     \* Gateway calls and plan generations started so far
  \* ---- callers of the library functions
  priced,       \* the latest calculateCost call: its arguments and its result
  pendingCommands, \* the texts of the receiveCommand calls suspended at generatePlan
  planCommand,  \* Agent.currentPlan?.command: NoCommand while currentPlan is null
  planned,      \* the text of the receiveCommand that returned last, and currentPlan.command then
  io,           \* EventService.io: whether a Socket.io server is attached
  delivered,    \* the events handed to the transport for its subscribers, in order
  warned,       \* the events console.warn was called for, in order
  lastEmit,     \* the latest emit call: its event, and whether it threw
  planSteps,    \* PlanImpl.steps of one Plan: for each Step the k of its id "<plan>-s<k>"
  \* ---- commands for the agent whose plan is approved and executed
  agentOf,      \* for each request id, in order of enqueueing, item.agentId
  newerPlan,    \* status of the plan createPlan stored for that agent after dbPlan, or "none"
  \* ---- BackgroundProcessor.start and stop
  running,      \* BackgroundProcessor.running
  intervalId,   \* BackgroundProcessor.intervalId: NoTimer (null) or the timer setInterval returned
  activeTimers, \* the timers that were set and not cleared
  lifeCall      \* the latest call of start or stop, or "none"

agentVars == <<status, currentPlan, plans, pendingGen, execs, lastCall, emitted, doneLog>>
sameVars == <<agentOf, newerPlan>>
genVars == <<queue, gens, otherAgent, otherPlans, taken, tickTaken, sameVars>>
seenVars == <<ran, dispatched, faulted>>
queueVars == <<genVars, seenVars, llmFailed>>
lifeVars == <<running, intervalId, activeTimers, lifeCall>>
orchVars == <<dbAgent, dbPlan, dbSteps, procs, tick, route, approvals, ioEmitted, queueVars, lifeVars>>
gwVars == <<env, gw, outcome, logger, log, planGen, attempts, sinkFaulted, sessions>>
cmdVars == <<pendingCommands, planCommand, planned>>
notifierVars == <<io, delivered, warned, lastEmit>>
libVars == <<priced, cmdVars, notifierVars, planSteps>>
vars == <<agentVars, orchVars, gwVars, libVars>>

\* ------------------------------------------------------------ helpers
Range(s) == {s[i] : i \in DOMAIN s}

Ev(name, arg, pos) == [ev |-> name, arg |-> arg, pos |-> pos]

\* Agent.updateStatus emits statusChange with the new status.
StatusChange(s) == Ev("statusChange", s, -1)

\* What a caller observes: the operation that returned (ok) or threw, and
\* for executePlan the Plan whose steps it iterated.
CallOn(op, ok, p) == [op |-> op, ok |-> ok, plan |-> p]
Call(op, ok) == CallOn(op, ok, NoPlan)
NoCall == Call("none", TRUE)

\* PlanImpl constructor followed by addStep for each of n step drafts:
\* step k (1-based) gets id "...-s<k>", status pending and position k-1.
NewPlan(n, followUp) ==
  [status |-> "draft",
   steps |-> [k \in 1..n |-> k],
   sst |-> [k \in 1..n |-> "pending"],
   hasFollowUp |-> followUp]

\* A Plan object nothing in the Agent refers to any more: it is neither the
\* current plan nor the plan of a running executePlan.
DeadPlan == [status |-> "dead", steps |-> <<>>, sst |-> <<>>, hasFollowUp |-> FALSE]

\* PlanStep.position of the step with id k, fixed by addStep.
Position(k) == k - 1

FreeExec == [pc |-> "free", plan |-> NoPlan, arr |-> <<>>, i |-> 0]

\* No executeAiProcessing runs in the slot.
FreeProc == [pc |-> "free", i |-> 0]

\* No call of processPlanGenerationQueue is working on the request.
FreeGen == "free"

\* The step-completed events an executePlan call has emitted once its loop
\* has finished the first i elements of the array arr it iterates.
CompletedLog(arr, i) == [j \in 1..i |-> Ev("stepCompleted", "", Position(arr[j]))]


\* ======================================================== Agent object
\* Agent.validatePlanExists: throws when currentPlan is null.
validatePlanExists(cp) == cp # NoPlan

\* Agent.validateStatus: throws unless the status is one of the expected ones.
validateStatus(actual, expected) == actual \in expected

\* The statuses receiveCommand checks for before it starts: it checks nothing.
ReceiveCommandAccepts(st) == TRUE

\* What executePlan, approvePlan and rejectPlan validate before acting:
\* that a plan exists and that the AGENT's status is awaiting_approval.
\* None of them reads the Plan's own status.
\* Mutant of ExecutePlanValid: validateStatus is skipped.
ExecutePlanValid_AnyStatus(st, cp) == validatePlanExists(cp)

ExecutePlanValid(st, cp) == validatePlanExists(cp) /\ validateStatus(st, {"awaiting_approval"})

\* Mutant of ApprovePlanValid: validateStatus is skipped.
ApprovePlanValid_AnyStatus(st, cp) == validatePlanExists(cp)

ApprovePlanValid(st, cp) == validatePlanExists(cp) /\ validateStatus(st, {"awaiting_approval"})
RejectPlanValid(st, cp) == validatePlanExists(cp) /\ validateStatus(st, {"awaiting_approval"})

\* receiveCommand up to its first suspension: status -> planning, then
\* `await generatePlan(this, command)`.
ReceiveCommand ==
  /\ pendingGen < MaxGen
  /\ ReceiveCommandAccepts(status)
  /\ status' = "planning"
  /\ pendingGen' = pendingGen + 1
  /\ emitted' = <<StatusChange("planning")>>
  /\ lastCall' = NoCall
  /\ doneLog' = <<>>
  /\ UNCHANGED <<currentPlan, plans, execs>>

\* `this.currentPlan = plan` drops the Agent's reference to the plan it held:
\* the plans no running executePlan iterates are out of the Agent's reach.
Collapse(ps) ==
  [p \in DOMAIN ps |->
     IF \E e \in DOMAIN execs : execs[e].pc # "free" /\ execs[e].plan = p
       THEN ps[p] ELSE DeadPlan]

\* generatePlan resolves with a plan of n steps (processPlanData), and
\* receiveCommand resumes: currentPlan = plan, status -> awaiting_approval,
\* planCreated, return plan.
GenerateSucceeds(n, followUp) ==
  /\ pendingGen > 0
  /\ Len(plans) < MaxPlans
  /\ plans' = Append(Collapse(plans), NewPlan(n, followUp))
  /\ currentPlan' = Len(plans) + 1
  /\ status' = "awaiting_approval"
  /\ pendingGen' = pendingGen - 1
  /\ emitted' = <<StatusChange("awaiting_approval"), Ev("planCreated", "", -1)>>
  /\ lastCall' = Call("receiveCommand", TRUE)
  /\ doneLog' = <<>>
  /\ UNCHANGED execs

\* Mutant of GenerateFails: the catch rethrows without updateStatus(error).
GenerateFails_StaysPlanning ==
  /\ pendingGen > 0
  /\ pendingGen' = pendingGen - 1
  /\ emitted' = <<Ev("error", "", -1)>>
  /\ lastCall' = Call("receiveCommand", FALSE)
  /\ doneLog' = <<>>
  /\ UNCHANGED <<status, currentPlan, plans, execs>>

\* generatePlan rejects, and receiveCommand's catch runs: status -> error,
\* emit error, rethrow.
GenerateFails ==
  /\ pendingGen > 0
  /\ status' = "error"
  /\ pendingGen' = pendingGen - 1
  /\ emitted' = <<StatusChange("error"), Ev("error", "", -1)>>
  /\ lastCall' = Call("receiveCommand", FALSE)
  /\ doneLog' = <<>>
  /\ UNCHANGED <<currentPlan, plans, execs>>

ApprovePlan ==
  /\ IF ApprovePlanValid(status, currentPlan)
       THEN /\ plans' = [plans EXCEPT ![currentPlan].status = "approved"]
            /\ emitted' = <<Ev("planApproved", "", -1)>>
            /\ lastCall' = Call("approvePlan", TRUE)
       ELSE /\ plans' = plans
            /\ emitted' = <<>>
            /\ lastCall' = Call("approvePlan", FALSE)
  /\ doneLog' = <<>>
  /\ UNCHANGED <<status, currentPlan, pendingGen, execs>>

RejectPlan ==
  /\ IF RejectPlanValid(status, currentPlan)
       THEN /\ plans' = [plans EXCEPT ![currentPlan].status = "rejected"]
            /\ status' = "idle"
            /\ currentPlan' = NoPlan
            /\ emitted' = <<StatusChange("idle"), Ev("planRejected", "", -1)>>
            /\ lastCall' = Call("rejectPlan", TRUE)
       ELSE /\ UNCHANGED <<plans, status, currentPlan>>
            /\ emitted' = <<>>
            /\ lastCall' = Call("rejectPlan", FALSE)
  /\ doneLog' = <<>>
  /\ UNCHANGED <<pendingGen, execs>>

\* Mutant of StatusAfterCompletion: the follow-up's status change is lost.
StatusAfterCompletion_AlwaysIdle(followUp) == "idle"

\* The status executePlan leaves the Agent in after planCompleted: idle, and
\* when this.currentPlan.hasFollowUp is set it calls receiveCommand without
\* awaiting it, whose synchronous part sets planning.
StatusAfterCompletion(followUp) == IF followUp THEN "planning" ELSE "idle"

\* Whether the end of executePlan starts the follow-up receiveCommand.
StartsFollowUp(followUp) == followUp

\* The end of executePlan, after its for-of loop: plans1, emitted1, log1 and
\* execs1 are what the loop's last iteration left.  this.currentPlan is read
\* again here; when it is null the assignment throws and the catch block runs.
FinishPlan(p, plans1, emitted1, log1, execs1) ==
  /\ execs' = execs1
  /\ currentPlan' = currentPlan
  /\ IF currentPlan = NoPlan
       THEN /\ plans' = plans1
            /\ status' = "error"
            /\ emitted' = emitted1 \o <<StatusChange("error"), Ev("error", "", -1)>>
            /\ lastCall' = CallOn("executePlan", FALSE, p)
            /\ doneLog' = <<>>
            /\ pendingGen' = pendingGen
       ELSE LET followUp == plans1[currentPlan].hasFollowUp IN
            /\ plans' = [plans1 EXCEPT ![currentPlan].status = "completed"]
            /\ status' = StatusAfterCompletion(followUp)
            /\ pendingGen' = IF StartsFollowUp(followUp) THEN pendingGen + 1 ELSE pendingGen
            /\ emitted' = emitted1
                 \o <<StatusChange("idle"), Ev("planCompleted", "", -1)>>
                 \o (IF StartsFollowUp(followUp) THEN <<StatusChange("planning")>> ELSE <<>>)
            /\ lastCall' = CallOn("executePlan", TRUE, p)
            /\ doneLog' = log1 \o <<Ev("planCompleted", "", -1)>>

\* The slot an executePlan call that passes validation runs in.
FreeSlot == CHOOSE e \in DOMAIN execs : execs[e].pc = "free"

\* executePlan up to its first suspension.
ExecutePlan ==
  IF ~ExecutePlanValid(status, currentPlan)
    THEN /\ lastCall' = Call("executePlan", FALSE)
         /\ emitted' = <<>>
         /\ doneLog' = <<>>
         /\ UNCHANGED <<status, currentPlan, plans, pendingGen, execs>>
    ELSE /\ \E e \in DOMAIN execs : execs[e].pc = "free"
         /\ LET arr == plans[currentPlan].steps IN
            IF arr = <<>>
              THEN FinishPlan(currentPlan, plans, <<StatusChange("executing")>>, <<>>, execs)
              ELSE /\ status' = "executing"
                   /\ plans' = [plans EXCEPT ![currentPlan].sst[arr[1]] = "in_progress"]
                   /\ execs' = [execs EXCEPT ![FreeSlot] =
                        [pc |-> "awaitStep", plan |-> currentPlan, arr |-> arr, i |-> 1]]
                   /\ emitted' = <<StatusChange("executing"),
                                   Ev("stepStatusChange", "in_progress", Position(arr[1]))>>
                   /\ lastCall' = NoCall
                   /\ doneLog' = <<>>
                   /\ UNCHANGED <<currentPlan, pendingGen>>

\* `await this.executeStep(step)` resolves: the step is completed, and the
\* loop either starts the next element of the array it iterates or ends.
StepReturns(e) ==
  /\ execs[e].pc = "awaitStep"
  /\ LET x == execs[e]
         k == x.arr[x.i]
         plans1 == [plans EXCEPT ![x.plan].sst[k] = "completed"]
         em1 == <<Ev("stepStatusChange", "completed", Position(k))>>
         log1 == CompletedLog(x.arr, x.i)
     IN IF x.i < Len(x.arr)
          THEN LET k2 == x.arr[x.i + 1] IN
               /\ plans' = [plans1 EXCEPT ![x.plan].sst[k2] = "in_progress"]
               /\ execs' = [execs EXCEPT ![e].i = x.i + 1]
               /\ emitted' = Append(em1, Ev("stepStatusChange", "in_progress", Position(k2)))
               /\ lastCall' = NoCall
               /\ doneLog' = <<>>
               /\ UNCHANGED <<status, currentPlan, pendingGen>>
          ELSE FinishPlan(x.plan, plans1, em1, log1, [execs EXCEPT ![e] = FreeExec])

\* `await this.executeStep(step)` rejects: executePlan's catch block.
StepThrows(e) ==
  /\ execs[e].pc = "awaitStep"
  /\ status' = "error"
  /\ execs' = [execs EXCEPT ![e] = FreeExec]
  /\ emitted' = <<StatusChange("error"), Ev("error", "", -1)>>
  /\ lastCall' = CallOn("executePlan", FALSE, execs[e].plan)
  /\ doneLog' = <<>>
  /\ UNCHANGED <<currentPlan, plans, pendingGen>>

\* PlanImpl.reorderSteps accepts newOrder when it has as many entries as the
\* plan has steps and every entry is the id of a step of the plan.
ReorderAccepts(steps, newOrder) ==
  /\ Len(newOrder) = Len(steps)
  /\ \A i \in DOMAIN newOrder : newOrder[i] \in Range(steps)

\* The orders a caller passes: every list of the plan's length over the
\* plan's ids and one foreign id, one shorter list and one longer list.
Orders(steps) ==
  LET n == Len(steps) IN
  [1..n -> 1..(MaxSteps + 1)]
    \cup {Append(steps, MaxSteps + 1)}
    \cup (IF n > 0 THEN {SubSeq(steps, 1, n - 1)} ELSE {})

\* this.currentPlan.steps, or no steps when there is no current plan.
CurrentSteps == IF currentPlan = NoPlan THEN <<>> ELSE plans[currentPlan].steps

\* currentPlan.reorderSteps(newOrder), called on the Plan the Agent holds.
ReorderSteps(newOrder) ==
  /\ currentPlan # NoPlan
  /\ IF ReorderAccepts(plans[currentPlan].steps, newOrder)
       THEN /\ plans' = [plans EXCEPT ![currentPlan].steps = newOrder]
            /\ lastCall' = Call("reorderSteps", TRUE)
       ELSE /\ plans' = plans
            /\ lastCall' = Call("reorderSteps", FALSE)
  /\ emitted' = <<>>
  /\ doneLog' = <<>>
  /\ UNCHANGED <<status, currentPlan, pendingGen, execs>>

\* ======================= the LLM Gateway, the Request Logger, plan generation
\* process.env and the provider configuration read when services/llm is loaded
Keys == {"OPENAI_API_KEY", "ANTHROPIC_API_KEY"}

Envs ==
  {e \in [keys : SUBSET Keys, defaultChatProvider : {"openai", "anthropic"},
          enableCodeExecution : BOOLEAN, claudeCodeAvailable : BOOLEAN] :
     e.claudeCodeAvailable => e.enableCodeExecution}

NoEnv ==
  [keys |-> {}, defaultChatProvider |-> "openai",
   enableCodeExecution |-> FALSE, claudeCodeAvailable |-> FALSE]

\* config.provider as a caller may write it; "unset" is an absent or empty value
ProviderNames == {"unset", "openai", "OpenAI", "anthropic", "claude", "gemini"}

toLowerCase(s) == IF s = "OpenAI" THEN "openai" ELSE s

\* token usage a provider reports, in units of 1K tokens
Usages ==
  {[promptTokens |-> 1, completionTokens |-> 1], [promptTokens |-> 2, completionTokens |-> 1]}

ZeroUsage == [promptTokens |-> 0, completionTokens |-> 0]

\* pricing.ts: USD 1e-4 per 1K tokens
openAIPricing ==
  [m \in {"gpt-4o", "gpt-4"} |->
     IF m = "gpt-4o" THEN [input |-> 25, output |-> 100] ELSE [input |-> 300, output |-> 600]]
claudePricing ==
  [m \in {"claude-3-sonnet", "claude-3-opus"} |->
     IF m = "claude-3-sonnet" THEN [input |-> 30, output |-> 150]
     ELSE [input |-> 150, output |-> 750]]

\* the result of arithmetic on undefined
NaN == -1

\* names every object literal inherits from Object.prototype, and what
\* reading .input and .output of such a member gives in the cost formula
ObjectPrototype == {"constructor", "toString"}
InheritedMember == [input |-> NaN, output |-> NaN]

\* table[model] || table[flagship]
PricingOf(table, model, flagship) ==
  IF model \in DOMAIN table THEN table[model]
  ELSE IF model \in ObjectPrototype THEN InheritedMember ELSE table[flagship]

calculateCost(provider, model, inputTokens, outputTokens) ==
  LET pricing ==
        CASE toLowerCase(provider) = "openai" -> PricingOf(openAIPricing, model, "gpt-4o")
          [] toLowerCase(provider) = "anthropic" ->
               PricingOf(claudePricing, model, "claude-3-sonnet")
          [] OTHER -> openAIPricing["gpt-4o"]
  IN IF pricing = InheritedMember THEN NaN
     ELSE inputTokens * pricing.input + outputTokens * pricing.output

\* ---- a caller of calculateCost
NotPriced == [provider |-> "none", model |-> "none", inputTokens |-> 0, outputTokens |-> 0, costUsd |-> 0]

ModelNames == {"gpt-4o", "gpt-4", "claude-3-sonnet", "claude-3-opus", "my-model", "constructor"}

CalculateCost(provider, model, inputTokens, outputTokens) ==
  /\ UNCHANGED <<cmdVars, notifierVars, planSteps>>
  /\ priced' = [provider |-> provider, model |-> model, inputTokens |-> inputTokens,
             outputTokens |-> outputTokens,
             costUsd |-> calculateCost(provider, model, inputTokens, outputTokens)]

\* ---- the Gateway's chatCompletion
shouldUseToolExecution(executionStrategy, tools) ==
  \/ executionStrategy = "tools"
  \/ tools
  \/ (env.enableCodeExecution /\ env.claudeCodeAvailable)

\* the environment variable whose absence makes chatCompletion throw at once
MissingKey(provider) ==
  IF provider = "openai" /\ "OPENAI_API_KEY" \notin env.keys THEN "OPENAI_API_KEY"
  ELSE IF provider \in {"anthropic", "claude"} /\ "ANTHROPIC_API_KEY" \notin env.keys
       THEN "ANTHROPIC_API_KEY"
       ELSE "none"

\* the adapter every request is handed to, whatever its provider
AdapterOf_AlwaysOpenAI(provider) == "openai"

\* the switch of the standard execution path
AdapterOf(provider) == IF provider \in {"anthropic", "claude"} THEN "anthropic" ELSE "openai"

\* the model the switch leaves in config.model for a request that asked for gpt-4o
ModelFor(adapter) == IF adapter = "anthropic" THEN "claude-3-sonnet" ELSE "gpt-4o"

ErrorMessage(adapter) ==
  IF adapter = "anthropic" THEN "Anthropic chat completion failed"
  ELSE "OpenAI chat completion failed"

\* a tool-path failure handed on to the caller
ToolCatch_Rethrows == "throw"

\* the catch around generateAndExecuteCode logs to the console and falls through
ToolCatch == "standard"

IdleGw ==
  [pc |-> "idle", caller |-> "none", operation |-> "none", provider |-> "none",
   requested |-> FALSE, strategy |-> "standard", toolTried |-> FALSE, toolThrew |-> FALSE,
   toolCalls |-> 0, adapterCalls |-> <<>>, providerThrew |-> FALSE, rows |-> <<>>]

NoOutcome == [kind |-> "none", by |-> "none", message |-> "", toolCalls |-> 0]
Returned(by, toolCalls) == [kind |-> "result", by |-> by, message |-> "", toolCalls |-> toolCalls]
Thrown(by, message) == [kind |-> "error", by |-> by, message |-> message, toolCalls |-> 0]

IdlePlanGen == [pc |-> "idle", via |-> "none", stage |-> "none", failures |-> 0, result |-> "none"]

\* the part of the state a call and its continuations work on
Cur == [gw |-> gw, outcome |-> outcome, planGen |-> planGen, attempts |-> attempts]

Becomes(g) ==
  /\ gw' = g.gw
  /\ outcome' = g.outcome
  /\ planGen' = g.planGen
  /\ attempts' = g.attempts

StandardCall(call) ==
  [call EXCEPT !.pc = "adapter", !.adapterCalls = Append(@, AdapterOf(call.provider))]

\* chatCompletion from its entry to its first await, or to its throw
Enter(g, cfgProvider, tools, executionStrategy, caller, operation) ==
  LET strategy == IF shouldUseToolExecution(executionStrategy, tools) THEN "tools" ELSE "standard"
      provider == IF cfgProvider = "unset" THEN env.defaultChatProvider ELSE toLowerCase(cfgProvider)
      call == [IdleGw EXCEPT !.caller = caller, !.operation = operation, !.provider = provider,
                             !.requested = (executionStrategy = "tools" \/ tools),
                             !.strategy = strategy]
  IN IF MissingKey(provider) # "none"
     THEN [g EXCEPT !.gw = [call EXCEPT !.pc = "done"],
                    !.outcome = Thrown("config", MissingKey(provider))]
     ELSE IF strategy = "tools" /\ env.enableCodeExecution /\ env.claudeCodeAvailable
          THEN [g EXCEPT !.gw = [call EXCEPT !.pc = "tool", !.toolTried = TRUE],
                         !.outcome = NoOutcome, !.attempts = @ + 1]
          ELSE [g EXCEPT !.gw = StandardCall(call), !.outcome = NoOutcome, !.attempts = @ + 1]

\* ---- logLLMRequest
LogRequest(provider, model, operation, usage, costUsd, st, error) ==
  [provider |-> provider, model |-> model, operation |-> operation, tokenUsage |-> usage,
   costUsd |-> costUsd, status |-> st, error |-> error]

NoRequest == LogRequest("none", "none", "none", ZeroUsage, 0, "none", "none")

IdleLogger == [pc |-> "idle", id |-> 0, data |-> NoRequest, writes |-> <<>>, then |-> "none"]

\* the first createLog argument
FullLog(id, d) ==
  [id |-> id, operation |-> d.operation, model |-> d.model, prompt |-> "prompt",
   tokensPrompt |-> d.tokenUsage.promptTokens, tokensCompletion |-> d.tokenUsage.completionTokens,
   costUsd |-> d.costUsd, status |-> d.status, errorMessage |-> d.error]

\* a retry that draws a new id
MinimalLog_FreshId(id, d) ==
  [FullLog(id + 1, d) EXCEPT !.prompt = "request (too large for DB)",
                             !.errorMessage = "Original save failed"]

\* the createLog argument of the retry
MinimalLog(id, d) ==
  [FullLog(id, d) EXCEPT !.prompt = "request (too large for DB)",
                         !.errorMessage = "Original save failed"]

\* the cost_usd column of a row written with costUsd 0
NullCost == -1

\* the row createLog inserts
DbRow(logData) ==
  [logData EXCEPT !.costUsd = IF @ = 0 THEN NullCost ELSE @]

\* a failed retry handed on to the caller of logLLMRequest
OnLogDropped_Propagates(then) ==
  IF then \in {"returnTool", "return"} THEN "throw" ELSE "noPlan"

\* the catch of the retry logs to the console: the caller goes on as after a write
OnLogDropped(then) == then

StartLog(d, then) ==
  [pc |-> "full", id |-> logger.id + 1, data |-> d, writes |-> <<>>, then |-> then]

\* what the core generatePlan resolves or rejects with, and what its caller
\* makes of it: Agent.receiveCommand rethrows, plan-service's generatePlan
\* goes on to generatePlanWithOpenAI and then to generateFallbackPlan
CoreSettles(g, ok) ==
  IF ok THEN [g EXCEPT !.planGen.pc = "done", !.planGen.result = "plan"]
  ELSE IF g.planGen.via = "agent"
       THEN [g EXCEPT !.planGen.pc = "done", !.planGen.failures = @ + 1,
                      !.planGen.result = "failure"]
       ELSE IF g.planGen.stage = "receiveCommand"
            THEN Enter([g EXCEPT !.planGen.pc = "primary", !.planGen.failures = @ + 1,
                                 !.planGen.stage = "generatePlanWithOpenAI"],
                       "unset", TRUE, "tools", "generatePlan", "generate_plan")
            ELSE [g EXCEPT !.planGen.pc = "done", !.planGen.failures = @ + 1,
                           !.planGen.result = "fallbackPlan"]

\* the code after `await logLLMRequest(...)`
Resume(g, then) ==
  LET adapter == IF g.gw.adapterCalls = <<>> THEN "none" ELSE g.gw.adapterCalls[Len(g.gw.adapterCalls)]
  IN CASE then = "returnTool" ->
            [g EXCEPT !.gw.pc = "done", !.outcome = Returned("claude-code", g.gw.toolCalls)]
       [] then = "return" -> [g EXCEPT !.gw.pc = "done", !.outcome = Returned(adapter, 0)]
       [] then = "throw" ->
            [g EXCEPT !.gw.pc = "done", !.outcome = Thrown(adapter, ErrorMessage(adapter))]
       [] then = "plan" -> CoreSettles(g, TRUE)
       [] then = "noPlan" -> CoreSettles(g, FALSE)

\* the row is one of the Gateway call that is waiting for the logger
Logged(g, row) == IF g.gw.pc = "log" THEN [g EXCEPT !.gw.rows = Append(@, row)] ELSE g

FullWriteSaved ==
  /\ logger.pc = "full"
  /\ LET row == FullLog(logger.id, logger.data)
     IN /\ log' = Append(log, DbRow(row))
        /\ logger' = [logger EXCEPT !.pc = "idle", !.writes = Append(@, [log |-> row, ok |-> TRUE])]
        /\ Becomes(Resume(Logged(Cur, DbRow(row)), logger.then))
  /\ UNCHANGED <<env, sinkFaulted, sessions>>

FullWriteFails ==
  /\ logger.pc = "full"
  /\ logger' = [logger EXCEPT !.pc = "minimal",
                              !.writes = Append(@, [log |-> FullLog(logger.id, logger.data),
                                                    ok |-> FALSE])]
  /\ sinkFaulted' = TRUE
  /\ UNCHANGED <<env, gw, outcome, log, planGen, attempts, sessions>>

MinimalWriteSaved ==
  /\ logger.pc = "minimal"
  /\ LET row == MinimalLog(logger.id, logger.data)
     IN /\ log' = Append(log, DbRow(row))
        /\ logger' = [logger EXCEPT !.pc = "idle", !.writes = Append(@, [log |-> row, ok |-> TRUE])]
        /\ Becomes(Resume(Logged(Cur, DbRow(row)), logger.then))
  /\ UNCHANGED <<env, sinkFaulted, sessions>>

MinimalWriteFails ==
  /\ logger.pc = "minimal"
  /\ logger' = [logger EXCEPT !.pc = "idle",
                              !.writes = Append(@, [log |-> MinimalLog(logger.id, logger.data),
                                                    ok |-> FALSE])]
  /\ Becomes(Resume(Cur, OnLogDropped(logger.then)))
  /\ UNCHANGED <<env, log, sinkFaulted, sessions>>

\* ---- a service calls llm.chatCompletion
AllIdle == gw.pc = "idle" /\ planGen.pc = "idle" /\ logger.pc = "idle"

ChatCompletion(cfgProvider, tools, executionStrategy) ==
  /\ AllIdle
  /\ sessions < MaxSessions
  /\ sessions' = sessions + 1
  /\ Becomes(Enter(Cur, cfgProvider, tools, executionStrategy, "direct", "chat"))
  /\ UNCHANGED <<env, logger, log, sinkFaulted>>

ToolReturns(n) ==
  /\ gw.pc = "tool"
  /\ gw' = [gw EXCEPT !.pc = "log", !.toolCalls = n]
  /\ logger' = StartLog(LogRequest("claude-code", "claude-3-opus",
                                   IF gw.operation = "chat" THEN "code_execution" ELSE gw.operation,
                                   ZeroUsage, 0, "completed", "none"),
                        "returnTool")
  /\ UNCHANGED <<env, outcome, log, planGen, attempts, sinkFaulted, sessions>>

ToolThrows ==
  /\ gw.pc = "tool"
  /\ IF ToolCatch = "standard"
     THEN /\ gw' = StandardCall([gw EXCEPT !.toolThrew = TRUE])
          /\ attempts' = attempts + 1
          /\ UNCHANGED outcome
     ELSE /\ gw' = [gw EXCEPT !.pc = "done", !.toolThrew = TRUE]
          /\ outcome' = Thrown("claude-code", "Code execution failed")
          /\ UNCHANGED attempts
  /\ UNCHANGED <<env, logger, log, planGen, sinkFaulted, sessions>>

CalledAdapter == gw.adapterCalls[Len(gw.adapterCalls)]

ProviderReturns(u) ==
  /\ gw.pc = "adapter"
  /\ gw' = [gw EXCEPT !.pc = "log"]
  /\ logger' = StartLog(LogRequest(CalledAdapter, ModelFor(CalledAdapter), gw.operation, u,
                                   calculateCost(CalledAdapter, ModelFor(CalledAdapter),
                                                 u.promptTokens, u.completionTokens),
                                   "completed", "none"),
                        "return")
  /\ UNCHANGED <<env, outcome, log, planGen, attempts, sinkFaulted, sessions>>

ProviderThrows ==
  /\ gw.pc = "adapter"
  /\ gw' = [gw EXCEPT !.pc = "log", !.providerThrew = TRUE]
  /\ logger' = StartLog(LogRequest(CalledAdapter, ModelFor(CalledAdapter), gw.operation,
                                   ZeroUsage, 0, "error", "provider error"),
                        "throw")
  /\ UNCHANGED <<env, outcome, log, planGen, attempts, sinkFaulted, sessions>>

\* the service has its result or its error
ChatCompletionSettled ==
  /\ gw.pc = "done"
  /\ gw.caller = "direct"
  /\ gw' = IdleGw
  /\ outcome' = NoOutcome
  /\ UNCHANGED <<env, logger, log, planGen, attempts, sinkFaulted, sessions>>

\* ---- plan generation: the core generatePlan, called by Agent.receiveCommand
\* for a caller of the Agent ("agent") or for plan-service's generatePlan
\* ("service")
GeneratePlan(via) ==
  /\ AllIdle
  /\ sessions < MaxSessions
  /\ sessions' = sessions + 1
  /\ Becomes(Enter([Cur EXCEPT !.planGen = [IdlePlanGen EXCEPT !.pc = "primary", !.via = via,
                                                              !.stage = "receiveCommand"]],
                   "unset", TRUE, "tools", "generatePlan", "generate_plan"))
  /\ UNCHANGED <<env, logger, log, sinkFaulted>>

PrimaryYieldsPlan ==
  /\ planGen.pc = "primary"
  /\ gw.pc = "done"
  /\ outcome.kind = "result"
  /\ outcome.toolCalls > 0
  /\ Becomes(CoreSettles([Cur EXCEPT !.gw = IdleGw, !.outcome = NoOutcome], TRUE))
  /\ UNCHANGED <<env, logger, log, sinkFaulted, sessions>>

\* the primary call threw, used no tool, or returned content that is not JSON
PrimaryFallsBack ==
  /\ planGen.pc = "primary"
  /\ gw.pc = "done"
  /\ gw' = IdleGw
  /\ outcome' = NoOutcome
  /\ planGen' = [planGen EXCEPT !.pc = "secondary"]
  /\ attempts' = attempts + 1
  /\ UNCHANGED <<env, logger, log, sinkFaulted, sessions>>

SecondaryReturns(u, toolCalls) ==
  /\ planGen.pc = "secondary"
  /\ planGen' = [planGen EXCEPT !.pc = "log"]
  /\ logger' = StartLog(LogRequest("openai", "gpt-4o", "generate_plan", u,
                                   calculateCost("openai", "gpt-4o",
                                                 u.promptTokens, u.completionTokens),
                                   "completed", "none"),
                        IF toolCalls THEN "plan" ELSE "noPlan")
  /\ UNCHANGED <<env, gw, outcome, log, attempts, sinkFaulted, sessions>>

SecondaryReturnsNoUsage(toolCalls) ==
  /\ planGen.pc = "secondary"
  /\ Becomes(CoreSettles(Cur, toolCalls))
  /\ UNCHANGED <<env, logger, log, sinkFaulted, sessions>>

SecondaryThrows ==
  /\ planGen.pc = "secondary"
  /\ Becomes(CoreSettles(Cur, FALSE))
  /\ UNCHANGED <<env, logger, log, sinkFaulted, sessions>>

PlanGenSettled ==
  /\ planGen.pc = "done"
  /\ planGen' = IdlePlanGen
  /\ UNCHANGED <<env, gw, outcome, logger, log, attempts, sinkFaulted, sessions>>


\* services/llm when it is loaded, with no call in progress and an empty log
GatewayStart(e) ==
  /\ env = e
  /\ gw = IdleGw
  /\ outcome = NoOutcome
  /\ logger = IdleLogger
  /\ log = <<>>
  /\ planGen = IdlePlanGen
  /\ attempts = 0
  /\ sinkFaulted = FALSE
  /\ sessions = 0

\* ---- the command a generated Plan records (Agent.receiveCommand,
\* processPlanData)
NoCommand == "none"
Commands == {"summarise the report", "book a flight", "Unknown command"}
NothingPlanned == [text |-> NoCommand, command |-> NoCommand]

\* new PlanImpl(uuidv4(), agent.id, agent.currentPlan?.command || "Unknown command", ...)
processPlanData(currentCommand) ==
  IF currentCommand = NoCommand THEN "Unknown command" ELSE currentCommand

\* receiveCommand(text) up to `await generatePlan(this, text)`
CommandReceived(text) ==
  /\ Len(pendingCommands) < MaxPending
  /\ pendingCommands' = Append(pendingCommands, text)
  /\ UNCHANGED <<priced, planCommand, planned, notifierVars, planSteps>>

\* generatePlan resolves for the k-th suspended call: processPlanData builds
\* the Plan, receiveCommand sets currentPlan and returns it
CommandPlanned(k) ==
  /\ k \in DOMAIN pendingCommands
  /\ planCommand' = processPlanData(planCommand)
  /\ planned' = [text |-> pendingCommands[k], command |-> planCommand']
  /\ pendingCommands' = [j \in 1..(Len(pendingCommands) - 1) |->
                           IF j < k THEN pendingCommands[j] ELSE pendingCommands[j + 1]]
  /\ UNCHANGED <<priced, notifierVars, planSteps>>

\* rejectPlan: currentPlan = null
CommandPlanRejected ==
  /\ planCommand # NoCommand
  /\ planCommand' = NoCommand
  /\ UNCHANGED <<priced, pendingCommands, planned, notifierVars, planSteps>>

\* ---- the Steps of one Plan (PlanImpl.addStep, PlanImpl.removeStep)
\* id: `${this.id.substring(0, 8)}-s${this.steps.length + 1}`
NewStepId(steps) == Len(steps) + 1

AddStep ==
  /\ Len(planSteps) < MaxPlanSteps
  /\ planSteps' = Append(planSteps, NewStepId(planSteps))
  /\ UNCHANGED <<priced, cmdVars, notifierVars>>

\* findIndex: the first Step with the id, if there is one
RemoveStep(stepId) ==
  /\ LET found == {i \in DOMAIN planSteps : planSteps[i] = stepId}
     IN IF found = {} THEN UNCHANGED planSteps
        ELSE LET index == CHOOSE i \in found : \A j \in found : i <= j
             IN planSteps' = [j \in 1..(Len(planSteps) - 1) |->
                                IF j < index THEN planSteps[j] ELSE planSteps[j + 1]]
  /\ UNCHANGED <<priced, cmdVars, notifierVars>>

\* ---- the Event Notifier (EventService)
EventNames == {"agent:status-changed", "plan:created", "step:completed"}
NoEmit == [event |-> "none", threw |-> FALSE]

\* an emit without a transport that faults
WithoutTransport_Throws == "throw"

\* emit with this.io null: console.warn and return
WithoutTransport == "warn"

\* initialize(io)
Initialize ==
  /\ io' = TRUE
  /\ lastEmit' = NoEmit
  /\ UNCHANGED <<priced, cmdVars, delivered, warned, planSteps>>

Emit(eventName) ==
  /\ Len(delivered) + Len(warned) < MaxEmits
  /\ IF io
     THEN /\ delivered' = Append(delivered, eventName)
          /\ lastEmit' = [event |-> eventName, threw |-> FALSE]
          /\ UNCHANGED warned
     ELSE IF WithoutTransport = "warn"
          THEN /\ warned' = Append(warned, eventName)
               /\ lastEmit' = [event |-> eventName, threw |-> FALSE]
               /\ UNCHANGED delivered
          ELSE /\ lastEmit' = [event |-> eventName, threw |-> TRUE]
               /\ UNCHANGED <<delivered, warned>>
  /\ UNCHANGED <<priced, cmdVars, io, planSteps>>

LibStart ==
  /\ planSteps = <<>>
  /\ io = FALSE
  /\ delivered = <<>>
  /\ warned = <<>>
  /\ lastEmit = NoEmit
  /\ priced = NotPriced
  /\ pendingCommands = <<>>
  /\ planCommand = NoCommand
  /\ planned = NothingPlanned

\* ============================================================ start states
AgentInit ==
  /\ status = "idle"
  /\ currentPlan = NoPlan
  /\ plans = <<>>
  /\ pendingGen = 0
  /\ execs = [e \in 1..MaxExec |-> FreeExec]
  /\ lastCall = NoCall
  /\ emitted = <<>>
  /\ doneLog = <<>>

\* intervalId = null
NoTimer == 0

\* A call of start or stop, and whether it went past its test of `running`.
LifeCall(op, done) == [op |-> op, done |-> done]
NoLifeCall == LifeCall("none", FALSE)

\* A BackgroundProcessor as constructed: running = false, intervalId = null.
NotStarted ==
  /\ running = FALSE
  /\ intervalId = NoTimer
  /\ activeTimers = {}
  /\ lifeCall = NoLifeCall

\* A BackgroundProcessor after start(): running, and its one timer set.
Started ==
  /\ running = TRUE
  /\ intervalId = 1
  /\ activeTimers = {1}
  /\ lifeCall = NoLifeCall

\* A new BackgroundProcessor: planGenerationQueue = [], and a second agent
\* that has no plan yet.
QueueInit ==
  /\ queue = <<>>
  /\ gens = [r \in 1..MaxRequests |-> FreeGen]
  /\ otherAgent = "idle"
  /\ otherPlans = 0
  /\ taken = <<>>
  /\ tickTaken = 0
  /\ agentOf = <<>>
  /\ newerPlan = "none"
  /\ ran = <<>>
  /\ dispatched = 0
  /\ faulted = FALSE
  /\ llmFailed = {}

OrchIdle ==
  /\ QueueInit
  /\ Started
  /\ dbAgent = "idle"
  /\ dbPlan = "none"
  /\ dbSteps = <<>>
  /\ procs = [q \in 1..MaxProcs |-> FreeProc]
  /\ tick = "idle"
  /\ route = "idle"
  /\ approvals = 0
  /\ ioEmitted = <<>>

Init == AgentInit /\ OrchIdle /\ GatewayStart(NoEnv) /\ LibStart

Next ==
  \/ ReceiveCommand /\ UNCHANGED <<orchVars, gwVars, libVars>>
  \/ (\E n \in 0..MaxSteps, f \in BOOLEAN : GenerateSucceeds(n, f)) /\ UNCHANGED <<orchVars, gwVars, libVars>>
  \/ GenerateFails /\ UNCHANGED <<orchVars, gwVars, libVars>>
  \/ ApprovePlan /\ UNCHANGED <<orchVars, gwVars, libVars>>
  \/ RejectPlan /\ UNCHANGED <<orchVars, gwVars, libVars>>
  \/ ExecutePlan /\ UNCHANGED <<orchVars, gwVars, libVars>>
  \/ (\E e \in 1..MaxExec : StepReturns(e)) /\ UNCHANGED <<orchVars, gwVars, libVars>>
  \/ (\E e \in 1..MaxExec : StepThrows(e)) /\ UNCHANGED <<orchVars, gwVars, libVars>>
  \/ (\E o \in Orders(CurrentSteps) : ReorderSteps(o)) /\ UNCHANGED <<orchVars, gwVars, libVars>>

Spec == Init /\ [][Next]_vars


\* ============================== persisted records and dispatched work
\* One persisted agent whose latest plan (getCurrentPlanForAgent) has been
\* generated and stored: processPlanGenerationQueue has run createPlan and
\* updateAgent(status: awaiting_approval) for it.
OrchInit ==
  /\ QueueInit
  /\ Started
  /\ dbAgent = "awaiting_approval"
  /\ dbPlan = "awaiting_approval"
  /\ dbSteps \in {[k \in 1..n |-> "pending"] : n \in 0..MaxSteps}
  /\ procs = [q \in 1..MaxProcs |-> FreeProc]
  /\ tick = "idle"
  /\ route = "idle"
  /\ approvals = 0
  /\ ioEmitted = <<>>

IoEv(name, pos) == [ev |-> name, pos |-> pos]

\* The slot a dispatched executeAiProcessing runs in.
FreeProcSlot == CHOOSE q \in 1..MaxProcs : procs[q].pc = "free"

\* executeAiProcessing(agentId, planId) is called and not awaited.
Dispatch == [procs EXCEPT ![FreeProcSlot] = [pc |-> "start", i |-> 0]]

\* ---- POST /:planId/approve: the handler checks that the plan and the
\* agent exist, and nothing about their statuses.
ApproveRequest ==
  /\ route = "idle"
  /\ approvals < MaxApprovals
  /\ route' = "updatePlan"
  /\ approvals' = approvals + 1
  /\ ioEmitted' = <<>>
  /\ UNCHANGED <<dbAgent, dbPlan, dbSteps, procs, tick>>

\* updatePlanStatus(planId, approved)
ApproveUpdatePlan ==
  /\ route = "updatePlan"
  /\ dbPlan' = "approved"
  /\ route' = "updateAgent"
  /\ ioEmitted' = <<IoEv("plan:approved", -1)>>
  /\ UNCHANGED <<dbAgent, dbSteps, procs, tick, approvals>>

\* updateAgentStatus(agentId, executing)
ApproveUpdateAgent ==
  /\ route = "updateAgent"
  /\ dbAgent' = "executing"
  /\ route' = "dispatch"
  /\ ioEmitted' = <<IoEv("agent:status-changed", -1)>>
  /\ UNCHANGED <<dbPlan, dbSteps, procs, tick, approvals>>

\* executeAiProcessing(agent.id, planId), then the response is sent.
ApproveDispatch ==
  /\ route = "dispatch"
  /\ \E q \in 1..MaxProcs : procs[q].pc = "free"
  /\ procs' = Dispatch
  /\ dispatched' = dispatched + 1
  /\ route' = "idle"
  /\ ioEmitted' = <<>>
  /\ UNCHANGED <<dbAgent, dbPlan, dbSteps, tick, approvals, genVars, ran, faulted>>

\* ---- BackgroundProcessor.processPendingTasks, one tick at a time.
\* processApprovedPlans: SELECT * FROM agents WHERE status = 'executing'.
ProcessPendingTasks ==
  /\ tick = "idle"
  /\ tick' = IF dbAgent = "executing" THEN "getPlan" ELSE "awaiting"
  /\ ran' = <<"approved">>
  /\ tickTaken' = 0
  /\ ioEmitted' = <<>>
  /\ UNCHANGED <<dbAgent, dbPlan, dbSteps, procs, route, approvals>>
  /\ UNCHANGED <<queue, gens, otherAgent, otherPlans, taken, sameVars, dispatched, faulted>>

\* A timer set by start() calls processPendingTasks.
TickSelectExecuting == activeTimers # {} /\ ProcessPendingTasks

\* The SELECT of processApprovedPlans rejects: its catch rethrows, and the one
\* try/catch of processPendingTasks logs the error and ends the tick.
TickSelectExecutingFails ==
  /\ activeTimers # {}
  /\ tick = "idle"
  /\ tick' = "idle"
  /\ ran' = <<"approved">>
  /\ tickTaken' = 0
  /\ faulted' = TRUE
  /\ ioEmitted' = <<>>
  /\ UNCHANGED <<dbAgent, dbPlan, dbSteps, procs, route, approvals>>
  /\ UNCHANGED <<queue, gens, otherAgent, otherPlans, taken, sameVars, dispatched>>

\* getCurrentPlanForAgent: the agent's plan with the latest created_at.
CurrentPlanStatus == IF newerPlan = "none" THEN dbPlan ELSE newerPlan

\* getCurrentPlanForAgent for the selected agent, and the test of its status.
TickGetPlan ==
  /\ tick = "getPlan"
  /\ tick' = IF CurrentPlanStatus = "approved" THEN "dispatch" ELSE "awaiting"
  /\ ioEmitted' = <<>>
  /\ UNCHANGED <<dbAgent, dbPlan, dbSteps, procs, route, approvals, queueVars>>

\* After `await logOperation(...)`: executeAiProcessing(agent.id, plan.id).
TickDispatch ==
  /\ tick = "dispatch"
  /\ \E q \in 1..MaxProcs : procs[q].pc = "free"
  /\ procs' = Dispatch
  /\ dispatched' = dispatched + 1
  /\ tick' = "awaiting"
  /\ ioEmitted' = <<>>
  /\ UNCHANGED <<dbAgent, dbPlan, dbSteps, route, approvals, genVars, ran, faulted>>

\* Whether processAwaitingApprovalAgents finds an agent awaiting approval
\* whose current plan exists.
SomeAwaitingWithPlan ==
  \/ dbAgent = "awaiting_approval"
  \/ otherAgent = "awaiting_approval" /\ otherPlans > 0

\* processAwaitingApprovalAgents: one agents:awaiting_approval event for the
\* agents awaiting approval that have a plan.
TickAwaitingApproval ==
  /\ tick = "awaiting"
  /\ tick' = "queue"
  /\ ran' = Append(ran, "awaiting")
  /\ ioEmitted' = IF SomeAwaitingWithPlan
                    THEN <<IoEv("agents:awaiting_approval", -1)>> ELSE <<>>
  /\ UNCHANGED <<dbAgent, dbPlan, dbSteps, procs, route, approvals>>
  /\ UNCHANGED <<genVars, dispatched, faulted>>

\* The SELECT of processAwaitingApprovalAgents rejects: rethrown, and the
\* catch of processPendingTasks ends the tick.
TickAwaitingApprovalFails ==
  /\ tick = "awaiting"
  /\ tick' = "idle"
  /\ ran' = Append(ran, "awaiting")
  /\ faulted' = TRUE
  /\ ioEmitted' = <<>>
  /\ UNCHANGED <<dbAgent, dbPlan, dbSteps, procs, route, approvals>>
  /\ UNCHANGED <<genVars, dispatched>>

\* ---- the plan generation queue
\* POST /:id/command for the second agent: the agent is found, its status is
\* set to plan_pending, and queuePlanGeneration pushes the request.
CommandRequest ==
  /\ Len(taken) + Len(queue) < MaxRequests
  /\ otherAgent' = "plan_pending"
  /\ queue' = Append(queue, [requestId |-> Len(taken) + Len(queue) + 1, agentId |-> "other"])
  /\ agentOf' = Append(agentOf, "other")
  /\ ioEmitted' = <<>>
  /\ UNCHANGED <<dbAgent, dbPlan, dbSteps, procs, tick, route, approvals>>
  /\ UNCHANGED <<gens, otherPlans, taken, tickTaken, newerPlan, seenVars>>

\* POST /:id/command for the agent whose plan is approved and executed: the
\* handler looks the agent up and tests nothing about its status or its
\* plan; updateAgentStatus(plan_pending), then queuePlanGeneration.
CommandRequestSame ==
  /\ Len(taken) + Len(queue) < MaxRequests
  /\ Cardinality({r \in DOMAIN agentOf : agentOf[r] = "a1"}) < MaxSameCommands
  /\ dbAgent' = "plan_pending"
  /\ queue' = Append(queue, [requestId |-> Len(taken) + Len(queue) + 1, agentId |-> "a1"])
  /\ agentOf' = Append(agentOf, "a1")
  /\ ioEmitted' = <<>>
  /\ UNCHANGED <<dbPlan, dbSteps, procs, tick, route, approvals>>
  /\ UNCHANGED <<gens, otherAgent, otherPlans, taken, tickTaken, newerPlan, seenVars>>

\* Mutant of QueueShift: the whole backlog is removed with the first element.
QueueShift_Drain(q) == [item |-> Head(q), rest |-> <<>>]

\* Mutant of QueueShift: Array.prototype.pop, the newest element is taken.
QueueShift_Pop(q) == [item |-> q[Len(q)], rest |-> SubSeq(q, 1, Len(q) - 1)]

\* Mutant of QueueShift: the first element is read and left in the array.
QueueShift_Peek(q) == [item |-> Head(q), rest |-> q]

\* Array.prototype.shift: the first element, and the array without it.
QueueShift(q) == [item |-> Head(q), rest |-> Tail(q)]

\* Mutant of AfterShift: the timer waits for the tick's promise to settle.
AfterShift_Awaited == "busy"

\* setInterval calls processPendingTasks every pollInterval and does not wait
\* for the promise of the previous call: once a tick is suspended in the work
\* on the request it took, the next tick can start.
AfterShift == "idle"

\* processPlanGenerationQueue: returns when the queue is empty; otherwise
\* shifts one request and awaits getAgentById for it.
TickQueue ==
  /\ tick = "queue"
  /\ ran' = Append(ran, "queue")
  /\ IF queue = <<>>
       THEN /\ tick' = "idle"
            /\ UNCHANGED <<queue, gens, taken, tickTaken>>
       ELSE LET sh == QueueShift(queue) IN
            /\ tick' = AfterShift
            /\ gens' = [gens EXCEPT ![sh.item.requestId] = "getAgent"]
            /\ queue' = sh.rest
            /\ taken' = Append(taken, sh.item.requestId)
            /\ tickTaken' = tickTaken + (Len(queue) - Len(sh.rest))
  /\ ioEmitted' = <<>>
  /\ UNCHANGED <<dbAgent, dbPlan, dbSteps, procs, route, approvals>>
  /\ UNCHANGED <<otherAgent, otherPlans, sameVars, dispatched, faulted>>

\* getAgentById returns the agent; logOperation; generatePlan is awaited.
TickGetAgent(r) ==
  /\ gens[r] = "getAgent"
  /\ gens' = [gens EXCEPT ![r] = "generate"]
  /\ ioEmitted' = <<>>
  /\ UNCHANGED <<dbAgent, dbPlan, dbSteps, procs, tick, route, approvals>>
  /\ UNCHANGED <<queue, otherAgent, otherPlans, taken, tickTaken, sameVars, seenVars>>

\* getAgentById catches the fault of its query and returns null:
\* processPlanGenerationQueue logs "not found" and returns.
TickGetAgentNull(r) ==
  /\ gens[r] = "getAgent"
  /\ gens' = [gens EXCEPT ![r] = FreeGen]
  /\ faulted' = TRUE
  /\ ioEmitted' = <<>>
  /\ UNCHANGED <<dbAgent, dbPlan, dbSteps, procs, tick, route, approvals>>
  /\ UNCHANGED <<queue, otherAgent, otherPlans, taken, tickTaken, sameVars, ran, dispatched>>

\* generatePlan resolves with a plan; createPlan is awaited.
TickGenerated(r) ==
  /\ gens[r] = "generate"
  /\ gens' = [gens EXCEPT ![r] = "createPlan"]
  /\ ioEmitted' = <<>>
  /\ UNCHANGED <<dbAgent, dbPlan, dbSteps, procs, tick, route, approvals>>
  /\ UNCHANGED <<queue, otherAgent, otherPlans, taken, tickTaken, sameVars, seenVars>>

\* generatePlan rejects: the catch block of processPlanGenerationQueue.
TickGenerateFails(r) ==
  /\ gens[r] = "generate"
  /\ gens' = [gens EXCEPT ![r] = "catch"]
  /\ faulted' = TRUE
  /\ ioEmitted' = <<>>
  /\ UNCHANGED <<dbAgent, dbPlan, dbSteps, procs, tick, route, approvals>>
  /\ UNCHANGED <<queue, otherAgent, otherPlans, taken, tickTaken, sameVars, ran, dispatched>>

\* createPlan inserts the plan (status awaiting_approval) and its steps;
\* updateAgent is awaited.
TickCreatePlan(r) ==
  /\ gens[r] = "createPlan"
  /\ gens' = [gens EXCEPT ![r] = "updateAgent"]
  /\ IF agentOf[r] = "other"
       THEN otherPlans' = otherPlans + 1 /\ UNCHANGED newerPlan
       ELSE newerPlan' = "awaiting_approval" /\ UNCHANGED otherPlans
  /\ ioEmitted' = <<>>
  /\ UNCHANGED <<dbAgent, dbPlan, dbSteps, procs, tick, route, approvals>>
  /\ UNCHANGED <<queue, otherAgent, taken, tickTaken, agentOf, seenVars>>

\* createPlan rethrows the fault of its INSERT: the catch block.
TickCreatePlanFails(r) ==
  /\ gens[r] = "createPlan"
  /\ gens' = [gens EXCEPT ![r] = "catch"]
  /\ faulted' = TRUE
  /\ ioEmitted' = <<>>
  /\ UNCHANGED <<dbAgent, dbPlan, dbSteps, procs, tick, route, approvals>>
  /\ UNCHANGED <<queue, otherAgent, otherPlans, taken, tickTaken, sameVars, ran, dispatched>>

\* updateAgent(status: awaiting_approval), logOperation, plan:created; the
\* call of processPlanGenerationQueue ends.
TickUpdateAgent(r) ==
  /\ gens[r] = "updateAgent"
  /\ gens' = [gens EXCEPT ![r] = FreeGen]
  /\ IF agentOf[r] = "other"
       THEN otherAgent' = "awaiting_approval" /\ UNCHANGED dbAgent
       ELSE dbAgent' = "awaiting_approval" /\ UNCHANGED otherAgent
  /\ ioEmitted' = <<IoEv("plan:created", -1)>>
  /\ UNCHANGED <<dbPlan, dbSteps, procs, tick, route, approvals>>
  /\ UNCHANGED <<queue, otherPlans, taken, tickTaken, sameVars, seenVars>>

\* catch: updateAgent(status: error), logOperation, agent:error; the call of
\* processPlanGenerationQueue ends.
TickCatch(r) ==
  /\ gens[r] = "catch"
  /\ gens' = [gens EXCEPT ![r] = FreeGen]
  /\ IF agentOf[r] = "other"
       THEN otherAgent' = "error" /\ UNCHANGED dbAgent
       ELSE dbAgent' = "error" /\ UNCHANGED otherAgent
  /\ ioEmitted' = <<IoEv("agent:error", -1)>>
  /\ UNCHANGED <<dbPlan, dbSteps, procs, tick, route, approvals>>
  /\ UNCHANGED <<queue, otherPlans, taken, tickTaken, sameVars, seenVars>>

\* ---- executeAiProcessing
\* `new Agent(id, name, description)`: the constructor's status.
NewAgentStatus == "idle"

\* executeAiProcessing builds a new Agent, sets its currentPlan and awaits
\* agentInstance.executePlan(), which validates the new Agent's status.
\* When the validation throws, the catch block runs.
ExecPrimary(q) ==
  /\ procs[q].pc = "start"
  /\ procs' = [procs EXCEPT ![q].pc =
       IF ExecutePlanValid(NewAgentStatus, 1) THEN "agentRuns" ELSE "catchAgent"]
  /\ ioEmitted' = <<>>
  /\ UNCHANGED <<dbAgent, dbPlan, dbSteps, tick, route, approvals>>

\* catch: updateAgent(agentId, {status: 'error'})
ExecCatchAgent(q) ==
  /\ procs[q].pc = "catchAgent"
  /\ dbAgent' = "error"
  /\ procs' = [procs EXCEPT ![q].pc = "catchPlan"]
  /\ ioEmitted' = <<>>
  /\ UNCHANGED <<dbPlan, dbSteps, tick, route, approvals>>

\* The fallback's loop position after step i: the next step, or the end.
AfterStep(i) ==
  IF i < Len(dbSteps) THEN [pc |-> "stepStart", i |-> i + 1]
                      ELSE [pc |-> "planDone", i |-> 0]

\* catch: updatePlanStatus(planId, 'failed'), plan:failed, then
\* executeAiProcessingFallback reads the plan and the agent again, and
\* returns when getCurrentPlanForAgent yields a plan other than planId.
ExecCatchPlan(q) ==
  /\ procs[q].pc = "catchPlan"
  /\ dbPlan' = "failed"
  /\ procs' = [procs EXCEPT ![q] = IF newerPlan = "none" THEN AfterStep(0) ELSE FreeProc]
  /\ ioEmitted' = <<IoEv("plan:failed", -1)>>
  /\ UNCHANGED <<dbAgent, dbSteps, tick, route, approvals>>

\* fallback loop: UPDATE plan_steps SET status = 'in_progress', step:status,
\* then executeStepWithAI (which returns a result even when the call fails).
FallbackStepStart(q) ==
  /\ procs[q].pc = "stepStart"
  /\ dbSteps' = [dbSteps EXCEPT ![procs[q].i] = "in_progress"]
  /\ procs' = [procs EXCEPT ![q].pc = "stepRun"]
  /\ ioEmitted' = <<IoEv("step:status", procs[q].i - 1)>>
  /\ UNCHANGED <<dbAgent, dbPlan, tick, route, approvals>>

\* fallback loop: UPDATE plan_steps SET status = 'completed', step:completed.
FallbackStepDone(q) ==
  /\ procs[q].pc = "stepRun"
  /\ dbSteps' = [dbSteps EXCEPT ![procs[q].i] = "completed"]
  /\ procs' = [procs EXCEPT ![q] = AfterStep(procs[q].i)]
  /\ ioEmitted' = <<IoEv("step:completed", procs[q].i - 1)>>
  /\ UNCHANGED <<dbAgent, dbPlan, tick, route, approvals>>

\* fallback loop: llm.chatCompletion throws inside executeStepWithAI, whose
\* catch returns generateFakeStepResult(step.description); the loop goes on
\* as after a result: UPDATE plan_steps SET status = 'completed', step:completed.
FallbackStepLlmFails(q) ==
  /\ procs[q].pc = "stepRun"
  /\ dbSteps' = [dbSteps EXCEPT ![procs[q].i] = "completed"]
  /\ procs' = [procs EXCEPT ![q] = AfterStep(procs[q].i)]
  /\ llmFailed' = llmFailed \cup {q}
  /\ faulted' = TRUE
  /\ ioEmitted' = <<IoEv("step:completed", procs[q].i - 1)>>
  /\ UNCHANGED <<dbAgent, dbPlan, tick, route, approvals, genVars, ran, dispatched>>

\* fallback: updatePlanStatus(planId, 'completed')
FallbackPlanDone(q) ==
  /\ procs[q].pc = "planDone"
  /\ dbPlan' = "completed"
  /\ procs' = [procs EXCEPT ![q].pc = "agentIdle"]
  /\ ioEmitted' = <<>>
  /\ UNCHANGED <<dbAgent, dbSteps, tick, route, approvals>>

\* fallback: updateAgent(agentId, {status: 'idle'}), and the unit of work ends.
FallbackAgentIdle(q) ==
  /\ procs[q].pc = "agentIdle"
  /\ dbAgent' = "idle"
  /\ procs' = [procs EXCEPT ![q] = FreeProc]
  /\ llmFailed' = llmFailed \ {q}
  /\ ioEmitted' = <<>>
  /\ UNCHANGED <<dbPlan, dbSteps, tick, route, approvals, genVars, seenVars>>

InitOrch == AgentInit /\ OrchInit /\ GatewayStart(NoEnv) /\ LibStart

NextOrch ==
  \/ ApproveRequest /\ UNCHANGED <<agentVars, gwVars, libVars, lifeVars, queueVars>>
  \/ ApproveUpdatePlan /\ UNCHANGED <<agentVars, gwVars, libVars, lifeVars, queueVars>>
  \/ ApproveUpdateAgent /\ UNCHANGED <<agentVars, gwVars, libVars, lifeVars, queueVars>>
  \/ ApproveDispatch /\ UNCHANGED <<agentVars, gwVars, libVars, lifeVars, llmFailed>>
  \/ TickSelectExecuting /\ UNCHANGED <<agentVars, gwVars, libVars, lifeVars, llmFailed>>
  \/ TickSelectExecutingFails /\ UNCHANGED <<agentVars, gwVars, libVars, lifeVars, llmFailed>>
  \/ TickGetPlan /\ UNCHANGED <<agentVars, gwVars, libVars, lifeVars, llmFailed>>
  \/ TickDispatch /\ UNCHANGED <<agentVars, gwVars, libVars, lifeVars, llmFailed>>
  \/ TickAwaitingApproval /\ UNCHANGED <<agentVars, gwVars, libVars, lifeVars, llmFailed>>
  \/ TickAwaitingApprovalFails /\ UNCHANGED <<agentVars, gwVars, libVars, lifeVars, llmFailed>>
  \/ TickQueue /\ UNCHANGED <<agentVars, gwVars, libVars, lifeVars, llmFailed>>
  \/ (\E q \in 1..MaxProcs : ExecPrimary(q)) /\ UNCHANGED <<agentVars, gwVars, libVars, lifeVars, queueVars>>
  \/ (\E q \in 1..MaxProcs : ExecCatchAgent(q)) /\ UNCHANGED <<agentVars, gwVars, libVars, lifeVars, queueVars>>
  \/ (\E q \in 1..MaxProcs : ExecCatchPlan(q)) /\ UNCHANGED <<agentVars, gwVars, libVars, lifeVars, queueVars>>
  \/ (\E q \in 1..MaxProcs : FallbackStepStart(q)) /\ UNCHANGED <<agentVars, gwVars, libVars, lifeVars, queueVars>>
  \/ (\E q \in 1..MaxProcs : FallbackStepDone(q)) /\ UNCHANGED <<agentVars, gwVars, libVars, lifeVars, queueVars>>
  \/ (\E q \in 1..MaxProcs : FallbackPlanDone(q)) /\ UNCHANGED <<agentVars, gwVars, libVars, lifeVars, queueVars>>
  \/ (\E q \in 1..MaxProcs : FallbackStepLlmFails(q)) /\ UNCHANGED <<agentVars, gwVars, libVars, lifeVars>>
  \/ (\E q \in 1..MaxProcs : FallbackAgentIdle(q)) /\ UNCHANGED <<agentVars, gwVars, libVars, lifeVars>>

SpecOrch == InitOrch /\ [][NextOrch]_vars

\* ---- commands sent to the agent while its plan is approved and executed
NextOrchCommand ==
  \/ ApproveRequest /\ UNCHANGED <<agentVars, gwVars, libVars, lifeVars, queueVars>>
  \/ ApproveUpdatePlan /\ UNCHANGED <<agentVars, gwVars, libVars, lifeVars, queueVars>>
  \/ ApproveUpdateAgent /\ UNCHANGED <<agentVars, gwVars, libVars, lifeVars, queueVars>>
  \/ ApproveDispatch /\ UNCHANGED <<agentVars, gwVars, libVars, lifeVars, llmFailed>>
  \/ TickSelectExecuting /\ UNCHANGED <<agentVars, gwVars, libVars, lifeVars, llmFailed>>
  \/ TickGetPlan /\ UNCHANGED <<agentVars, gwVars, libVars, lifeVars, llmFailed>>
  \/ TickDispatch /\ UNCHANGED <<agentVars, gwVars, libVars, lifeVars, llmFailed>>
  \/ TickAwaitingApproval /\ UNCHANGED <<agentVars, gwVars, libVars, lifeVars, llmFailed>>
  \/ TickQueue /\ UNCHANGED <<agentVars, gwVars, libVars, lifeVars, llmFailed>>
  \/ (\E q \in 1..MaxProcs : ExecPrimary(q)) /\ UNCHANGED <<agentVars, gwVars, libVars, lifeVars, queueVars>>
  \/ (\E q \in 1..MaxProcs : ExecCatchAgent(q)) /\ UNCHANGED <<agentVars, gwVars, libVars, lifeVars, queueVars>>
  \/ (\E q \in 1..MaxProcs : ExecCatchPlan(q)) /\ UNCHANGED <<agentVars, gwVars, libVars, lifeVars, queueVars>>
  \/ (\E q \in 1..MaxProcs : FallbackStepStart(q)) /\ UNCHANGED <<agentVars, gwVars, libVars, lifeVars, queueVars>>
  \/ (\E q \in 1..MaxProcs : FallbackStepDone(q)) /\ UNCHANGED <<agentVars, gwVars, libVars, lifeVars, queueVars>>
  \/ (\E q \in 1..MaxProcs : FallbackPlanDone(q)) /\ UNCHANGED <<agentVars, gwVars, libVars, lifeVars, queueVars>>
  \/ (\E q \in 1..MaxProcs : FallbackAgentIdle(q)) /\ UNCHANGED <<agentVars, gwVars, libVars, lifeVars>>
  \/ CommandRequestSame /\ UNCHANGED <<agentVars, gwVars, libVars, lifeVars, llmFailed>>
  \/ (\E r \in 1..MaxRequests : TickGetAgent(r)) /\ UNCHANGED <<agentVars, gwVars, libVars, lifeVars, llmFailed>>
  \/ (\E r \in 1..MaxRequests : TickGenerated(r)) /\ UNCHANGED <<agentVars, gwVars, libVars, lifeVars, llmFailed>>
  \/ (\E r \in 1..MaxRequests : TickCreatePlan(r)) /\ UNCHANGED <<agentVars, gwVars, libVars, lifeVars, llmFailed>>
  \/ (\E r \in 1..MaxRequests : TickUpdateAgent(r)) /\ UNCHANGED <<agentVars, gwVars, libVars, lifeVars, llmFailed>>

SpecOrchCommand == InitOrch /\ [][NextOrchCommand]_vars

\* ---- the ticks and the plan generation queue, for an agent whose commands
\* are queued while no plan is being approved or executed.
NextQueue ==
  \/ TickSelectExecuting /\ UNCHANGED <<agentVars, gwVars, libVars, lifeVars, llmFailed>>
  \/ TickSelectExecutingFails /\ UNCHANGED <<agentVars, gwVars, libVars, lifeVars, llmFailed>>
  \/ TickAwaitingApproval /\ UNCHANGED <<agentVars, gwVars, libVars, lifeVars, llmFailed>>
  \/ TickAwaitingApprovalFails /\ UNCHANGED <<agentVars, gwVars, libVars, lifeVars, llmFailed>>
  \/ CommandRequest /\ UNCHANGED <<agentVars, gwVars, libVars, lifeVars, llmFailed>>
  \/ TickQueue /\ UNCHANGED <<agentVars, gwVars, libVars, lifeVars, llmFailed>>
  \/ (\E r \in 1..MaxRequests : TickGetAgent(r)) /\ UNCHANGED <<agentVars, gwVars, libVars, lifeVars, llmFailed>>
  \/ (\E r \in 1..MaxRequests : TickGetAgentNull(r)) /\ UNCHANGED <<agentVars, gwVars, libVars, lifeVars, llmFailed>>
  \/ (\E r \in 1..MaxRequests : TickGenerated(r)) /\ UNCHANGED <<agentVars, gwVars, libVars, lifeVars, llmFailed>>
  \/ (\E r \in 1..MaxRequests : TickGenerateFails(r)) /\ UNCHANGED <<agentVars, gwVars, libVars, lifeVars, llmFailed>>
  \/ (\E r \in 1..MaxRequests : TickCreatePlan(r)) /\ UNCHANGED <<agentVars, gwVars, libVars, lifeVars, llmFailed>>
  \/ (\E r \in 1..MaxRequests : TickCreatePlanFails(r)) /\ UNCHANGED <<agentVars, gwVars, libVars, lifeVars, llmFailed>>
  \/ (\E r \in 1..MaxRequests : TickUpdateAgent(r)) /\ UNCHANGED <<agentVars, gwVars, libVars, lifeVars, llmFailed>>
  \/ (\E r \in 1..MaxRequests : TickCatch(r)) /\ UNCHANGED <<agentVars, gwVars, libVars, lifeVars, llmFailed>>

SpecQueue == InitOrch /\ [][NextQueue]_vars

\* While the processor is running the timer keeps firing, and the datastore
\* queries of the sweeps return and do not fail for ever.  Nothing is assumed
\* about the calls made for a request that was taken: they may never return.
TimerFairness ==
  /\ WF_vars(TickSelectExecuting /\ UNCHANGED <<agentVars, gwVars, libVars, lifeVars, llmFailed>>)
  /\ SF_vars(TickAwaitingApproval /\ UNCHANGED <<agentVars, gwVars, libVars, lifeVars, llmFailed>>)
  /\ WF_vars(TickQueue /\ UNCHANGED <<agentVars, gwVars, libVars, lifeVars, llmFailed>>)

SpecQueueFair == SpecQueue /\ TimerFairness

\* ---- BackgroundProcessor.start and BackgroundProcessor.stop
\* Mutant of StartWhenRunning: start() has no test of `running`.
StartWhenRunning_Restarts == "restart"

\* start() on a running processor logs and returns.
StartWhenRunning == "return"

\* The timer setInterval returns: one that is not set.
NewTimer == CHOOSE t \in 1..MaxTimers : t \notin activeTimers

\* start(): returns when running; otherwise running = true, one call of
\* processPendingTasks (not awaited), then intervalId = setInterval(...).
Start ==
  IF running /\ StartWhenRunning = "return"
    THEN /\ lifeCall' = LifeCall("start", FALSE)
         /\ UNCHANGED <<running, intervalId, activeTimers>>
         /\ UNCHANGED <<dbAgent, dbPlan, dbSteps, procs, tick, route, approvals, ioEmitted, genVars, seenVars>>
    ELSE /\ \E t \in 1..MaxTimers : t \notin activeTimers
         /\ lifeCall' = LifeCall("start", TRUE)
         /\ running' = TRUE
         /\ ProcessPendingTasks
         /\ intervalId' = NewTimer
         /\ activeTimers' = activeTimers \cup {NewTimer}

\* stop(): returns when not running; otherwise running = false and, when
\* intervalId is set, clearInterval(intervalId) and intervalId = null.
\* Nothing is done about a processPendingTasks call that has not returned.
Stop ==
  /\ IF ~running
       THEN /\ lifeCall' = LifeCall("stop", FALSE)
            /\ UNCHANGED <<running, intervalId, activeTimers>>
       ELSE /\ lifeCall' = LifeCall("stop", TRUE)
            /\ running' = FALSE
            /\ activeTimers' = activeTimers \ {intervalId}
            /\ intervalId' = NoTimer
  /\ UNCHANGED <<dbAgent, dbPlan, dbSteps, procs, tick, route, approvals, ioEmitted, genVars, seenVars>>

\* A BackgroundProcessor as constructed, and one persisted agent whose plan
\* awaits approval.
InitLifecycle ==
  /\ AgentInit
  /\ QueueInit
  /\ NotStarted
  /\ dbAgent = "awaiting_approval"
  /\ dbPlan = "awaiting_approval"
  /\ dbSteps = <<>>
  /\ procs = [q \in 1..MaxProcs |-> FreeProc]
  /\ tick = "idle"
  /\ route = "idle"
  /\ approvals = 0
  /\ ioEmitted = <<>>
  /\ GatewayStart(NoEnv)
  /\ LibStart

NextLifecycle ==
  \/ Start /\ UNCHANGED <<agentVars, gwVars, libVars, llmFailed>>
  \/ Stop /\ UNCHANGED <<agentVars, gwVars, libVars, llmFailed>>
  \/ ApproveRequest /\ UNCHANGED <<agentVars, gwVars, libVars, lifeVars, queueVars>>
  \/ ApproveUpdatePlan /\ UNCHANGED <<agentVars, gwVars, libVars, lifeVars, queueVars>>
  \/ ApproveUpdateAgent /\ UNCHANGED <<agentVars, gwVars, libVars, lifeVars, queueVars>>
  \/ ApproveDispatch /\ UNCHANGED <<agentVars, gwVars, libVars, lifeVars, llmFailed>>
  \/ TickSelectExecuting /\ UNCHANGED <<agentVars, gwVars, libVars, lifeVars, llmFailed>>
  \/ TickGetPlan /\ UNCHANGED <<agentVars, gwVars, libVars, lifeVars, llmFailed>>
  \/ TickDispatch /\ UNCHANGED <<agentVars, gwVars, libVars, lifeVars, llmFailed>>
  \/ TickAwaitingApproval /\ UNCHANGED <<agentVars, gwVars, libVars, lifeVars, llmFailed>>
  \/ CommandRequest /\ UNCHANGED <<agentVars, gwVars, libVars, lifeVars, llmFailed>>
  \/ TickQueue /\ UNCHANGED <<agentVars, gwVars, libVars, lifeVars, llmFailed>>
  \/ (\E r \in 1..MaxRequests : TickGetAgent(r)) /\ UNCHANGED <<agentVars, gwVars, libVars, lifeVars, llmFailed>>
  \/ (\E r \in 1..MaxRequests : TickGenerated(r)) /\ UNCHANGED <<agentVars, gwVars, libVars, lifeVars, llmFailed>>
  \/ (\E r \in 1..MaxRequests : TickCreatePlan(r)) /\ UNCHANGED <<agentVars, gwVars, libVars, lifeVars, llmFailed>>
  \/ (\E r \in 1..MaxRequests : TickUpdateAgent(r)) /\ UNCHANGED <<agentVars, gwVars, libVars, lifeVars, llmFailed>>

SpecLifecycle == InitLifecycle /\ [][NextLifecycle]_vars

\* ---- the Gateway, the Request Logger and plan generation on their own
InitGateway == AgentInit /\ OrchIdle /\ LibStart /\ \E e \in Envs : GatewayStart(e)

NextGateway ==
  \/ (\E p \in ProviderNames, t \in BOOLEAN, s \in {"unset", "tools"} : ChatCompletion(p, t, s))
       /\ UNCHANGED <<agentVars, orchVars, libVars>>
  \/ (\E n \in 0..1 : ToolReturns(n)) /\ UNCHANGED <<agentVars, orchVars, libVars>>
  \/ ToolThrows /\ UNCHANGED <<agentVars, orchVars, libVars>>
  \/ (\E u \in Usages : ProviderReturns(u)) /\ UNCHANGED <<agentVars, orchVars, libVars>>
  \/ ProviderThrows /\ UNCHANGED <<agentVars, orchVars, libVars>>
  \/ ChatCompletionSettled /\ UNCHANGED <<agentVars, orchVars, libVars>>
  \/ FullWriteSaved /\ UNCHANGED <<agentVars, orchVars, libVars>>
  \/ FullWriteFails /\ UNCHANGED <<agentVars, orchVars, libVars>>
  \/ MinimalWriteSaved /\ UNCHANGED <<agentVars, orchVars, libVars>>
  \/ MinimalWriteFails /\ UNCHANGED <<agentVars, orchVars, libVars>>
  \/ (\E v \in {"agent", "service"} : GeneratePlan(v)) /\ UNCHANGED <<agentVars, orchVars, libVars>>
  \/ PrimaryYieldsPlan /\ UNCHANGED <<agentVars, orchVars, libVars>>
  \/ PrimaryFallsBack /\ UNCHANGED <<agentVars, orchVars, libVars>>
  \/ (\E u \in Usages, t \in BOOLEAN : SecondaryReturns(u, t)) /\ UNCHANGED <<agentVars, orchVars, libVars>>
  \/ (\E t \in BOOLEAN : SecondaryReturnsNoUsage(t)) /\ UNCHANGED <<agentVars, orchVars, libVars>>
  \/ SecondaryThrows /\ UNCHANGED <<agentVars, orchVars, libVars>>
  \/ PlanGenSettled /\ UNCHANGED <<agentVars, orchVars, libVars>>

SpecGateway == InitGateway /\ [][NextGateway]_vars

\* ---- calculateCost on its own
NextPricing ==
  (\E p \in ProviderNames \ {"unset"}, m \in ModelNames, i \in 0..MaxTokens, o \in 0..MaxTokens :
     CalculateCost(p, m, i, o))
    /\ UNCHANGED <<agentVars, orchVars, gwVars>>

SpecPricing == Init /\ [][NextPricing]_vars

\* ---- the command recorded by the Plans of one Agent
NextCommand ==
  \/ (\E t \in Commands : CommandReceived(t)) /\ UNCHANGED <<agentVars, orchVars, gwVars>>
  \/ (\E k \in 1..MaxPending : CommandPlanned(k)) /\ UNCHANGED <<agentVars, orchVars, gwVars>>
  \/ CommandPlanRejected /\ UNCHANGED <<agentVars, orchVars, gwVars>>

SpecCommand == Init /\ [][NextCommand]_vars

\* ---- the Event Notifier on its own
NextNotifier ==
  \/ Initialize /\ UNCHANGED <<agentVars, orchVars, gwVars>>
  \/ (\E e \in EventNames : Emit(e)) /\ UNCHANGED <<agentVars, orchVars, gwVars>>

SpecNotifier == Init /\ [][NextNotifier]_vars

\* ---- the Steps of one Plan on their own
NextPlanSteps ==
  \/ AddStep /\ UNCHANGED <<agentVars, orchVars, gwVars>>
  \/ (\E k \in 1..MaxPlanSteps : RemoveStep(k)) /\ UNCHANGED <<agentVars, orchVars, gwVars>>

SpecPlanSteps == Init /\ [][NextPlanSteps]_vars

\* ---- one Agent object whose caller does not wait for an executePlan to
\* return before it makes its next call
AgentInitOverlap ==
  /\ status = "idle"
  /\ currentPlan = NoPlan
  /\ plans = <<>>
  /\ pendingGen = 0
  /\ execs = [e \in 1..MaxOverlap |-> FreeExec]
  /\ lastCall = NoCall
  /\ emitted = <<>>
  /\ doneLog = <<>>

InitOverlap == AgentInitOverlap /\ OrchIdle /\ GatewayStart(NoEnv) /\ LibStart

NextOverlap ==
  \/ ReceiveCommand /\ UNCHANGED <<orchVars, gwVars, libVars>>
  \/ (\E n \in 1..MaxSteps : GenerateSucceeds(n, FALSE)) /\ UNCHANGED <<orchVars, gwVars, libVars>>
  \/ GenerateFails /\ UNCHANGED <<orchVars, gwVars, libVars>>
  \/ ExecutePlan /\ UNCHANGED <<orchVars, gwVars, libVars>>
  \/ (\E e \in 1..MaxOverlap : StepReturns(e)) /\ UNCHANGED <<orchVars, gwVars, libVars>>
  \/ (\E e \in 1..MaxOverlap : StepThrows(e)) /\ UNCHANGED <<orchVars, gwVars, libVars>>

SpecOverlap == InitOverlap /\ [][NextOverlap]_vars


\* ============================================================== claims

\* The current Plan exists and has the given status.
CurrentPlanIs(st) == currentPlan # NoPlan /\ plans[currentPlan].status = st

\* C1 (as claimed).  Whenever executePlan() is called while the current Plan
\* is not `approved` (or there is none), the call fails, the Agent's status
\* does not change and no Step changes status.
C1_ExecuteOnlyApproved ==
  [][(ExecutePlan /\ ~CurrentPlanIs("approved"))
       => (lastCall' = Call("executePlan", FALSE) /\ status' = status /\ plans' = plans)]_vars

\* C2 (as claimed).  In every reachable state of the Agent, currentPlan is
\* non-null exactly when the status is planning, awaiting_approval or executing.
C2_PlanIffActive ==
  (currentPlan # NoPlan) <=> (status \in {"planning", "awaiting_approval", "executing"})

\* Step statuses read in position order: completed*, then at most one
\* in_progress or failed, then pending*.
PrefixForm(sts) ==
  \E a \in 0..Len(sts) : \E m \in {0, 1} :
    /\ a + m <= Len(sts)
    /\ \A i \in 1..a : sts[i] = "completed"
    /\ m = 1 => sts[a + 1] \in {"in_progress", "failed"}
    /\ \A i \in (a + m + 1)..Len(sts) : sts[i] = "pending"

\* C3 (as claimed).  At every instant the persisted Step statuses of the Plan,
\* in position order, are completed*, at most one in_progress/failed, pending*,
\* under every interleaving of ticks and the executions dispatched.
C3_StepStatusPrefix == PrefixForm(dbSteps)

\* The only moves a Step's status may make.
StepMoves ==
  {<<"pending", "in_progress">>, <<"in_progress", "completed">>, <<"in_progress", "failed">>}

\* C4 (as claimed).  A persisted Step's status only ever moves
\* pending -> in_progress -> completed or failed, across every execution
\* dispatched for its Plan.
C4_StepMovesForward ==
  [][\A k \in DOMAIN dbSteps :
       dbSteps'[k] # dbSteps[k] => <<dbSteps[k], dbSteps'[k]>> \in StepMoves]_vars

\* C5 (as claimed).  receiveCommand called while the Agent is planning,
\* awaiting_approval or executing changes neither the status nor the current
\* Plan, and starts no plan generation.
C5_ReceiveOnlyIdleOrError ==
  [][(ReceiveCommand /\ status \in {"planning", "awaiting_approval", "executing"})
       => UNCHANGED <<status, currentPlan, pendingGen>>]_vars

\* C6 (as claimed).  rejectPlan() called when the current Plan's status is not
\* awaiting_approval fails and leaves the Agent's status, its current-plan
\* reference and the Plan's status as they were.
C6_RejectOnlyAwaitingPlan ==
  [][(RejectPlan /\ ~CurrentPlanIs("awaiting_approval"))
       => (lastCall' = Call("rejectPlan", FALSE) /\ UNCHANGED <<status, currentPlan, plans>>)]_vars

\* C7 (as claimed).  reorderSteps(ids) fails and leaves the step sequence
\* unchanged whenever the set of ids supplied differs from the Plan's
\* current set of step ids.
C7_ReorderNeedsSameIdSet ==
  [][\A o \in Orders(CurrentSteps) :
       (ReorderSteps(o) /\ Range(o) # Range(CurrentSteps))
         => (lastCall' = Call("reorderSteps", FALSE) /\ plans' = plans)]_vars

\* C8 (as claimed).  When the one receiveCommand in flight on an Agent that
\* has never held a Plan completes successfully, the resulting Plan has
\* status awaiting_approval and at least one Step, and the Agent's status
\* is awaiting_approval.
C8_GeneratedPlanAwaitsApproval ==
  [][(Len(plans) = 0 /\ pendingGen = 1 /\ lastCall' = Call("receiveCommand", TRUE))
       => /\ status' = "awaiting_approval"
          /\ currentPlan' # NoPlan
          /\ plans'[currentPlan'].status = "awaiting_approval"
          /\ Len(plans'[currentPlan'].steps) >= 1]_vars

\* n step-completed notifications for positions 0..n-1 in order, then one
\* plan-completed notification.
ExpectedLog(n) ==
  [j \in 1..(n + 1) |->
     IF j <= n THEN Ev("stepCompleted", "", j - 1) ELSE Ev("planCompleted", "", -1)]

ExecuteReturned == lastCall.op = "executePlan" /\ lastCall.ok

\* C9 (as claimed).  A successful executePlan() has emitted one
\* step-completed notification per Step, in position order 0..n-1, and then
\* exactly one plan-completed notification.
C9_CompletionEventsInPositionOrder ==
  ExecuteReturned => doneLog = ExpectedLog(Len(doneLog) - 1)

C11_FaultFailsPlan ==
  [][\A e \in 1..MaxExec :
       StepThrows(e) =>
         /\ plans'[execs[e].plan].status = "failed"
         /\ status' = "error"
         /\ Ev("planFailed", "", -1) \in Range(emitted')]_vars

\* C12.  When plan generation fails inside receiveCommand, the Agent becomes
\* error, an error notification is emitted and the failure is re-raised to
\* the caller; and whenever a receiveCommand call has just finished, by
\* returning or by throwing, the Agent is not planning.
C12_GenerationFailureIsError ==
  [][/\ GenerateFails =>
          /\ status' = "error"
          /\ Ev("error", "", -1) \in Range(emitted')
          /\ lastCall' = Call("receiveCommand", FALSE)
     /\ lastCall'.op = "receiveCommand" => status' # "planning"]_vars

\* C12 witness: a receiveCommand has just thrown while another one is still
\* waiting for its plan, and the Agent is in error.
C12_Witness ==
  /\ lastCall = Call("receiveCommand", FALSE)
  /\ pendingGen > 0
  /\ status = "error"

\* C13.  An approvePlan() that succeeds was called with the Agent
\* awaiting_approval; it sets the current Plan's status to approved and emits
\* one planApproved notification, and changes nothing else: the Agent's
\* status, its current plan, every Step status and the running executions
\* are as before.
C13_ApproveOnlyMarksPlan ==
  [][(ApprovePlan /\ lastCall'.ok) =>
       /\ status = "awaiting_approval"
       /\ currentPlan # NoPlan
       /\ plans' = [plans EXCEPT ![currentPlan].status = "approved"]
       /\ emitted' = <<Ev("planApproved", "", -1)>>
       /\ UNCHANGED <<status, currentPlan, pendingGen, execs>>]_vars

\* C13 witness: approvePlan() has just succeeded on a Plan with Steps, all of
\* them still pending, and the Agent is still awaiting_approval.
C13_Witness ==
  /\ lastCall = Call("approvePlan", TRUE)
  /\ status = "awaiting_approval"
  /\ plans[currentPlan].status = "approved"
  /\ Len(plans[currentPlan].steps) = MaxSteps
  /\ \A k \in 1..MaxSteps : plans[currentPlan].sst[k] = "pending"

\* C14.  approvePlan() or executePlan() called with no current Plan, or with
\* the Agent in a status other than awaiting_approval, throws to its caller
\* and changes nothing: status, current plan, Plan and Step statuses, running
\* executions and pending generations are as before, and nothing is emitted.
C14_InvalidCallHasNoEffect ==
  [][((ApprovePlan \/ ExecutePlan)
        /\ ~(currentPlan # NoPlan /\ status = "awaiting_approval")) =>
       /\ lastCall' \in {Call("approvePlan", FALSE), Call("executePlan", FALSE)}
       /\ emitted' = <<>>
       /\ UNCHANGED <<status, currentPlan, plans, pendingGen, execs>>]_vars

\* C14 witness: executePlan() has just been refused on an Agent that holds a
\* Plan and is executing it.
C14_Witness ==
  /\ lastCall = Call("executePlan", FALSE)
  /\ currentPlan # NoPlan
  /\ status = "executing"
  /\ \E e \in 1..MaxExec : execs[e].pc = "awaitStep"

\* C15 (as claimed).  Over every run of ticks and approve requests, execution
\* of the approved Plan is started at most once, the dispatch made at
\* approval time included.
C15_DispatchedOnce == dispatched <= 1

\* The three sweeps of a tick, in the order processPendingTasks runs them.
AllSweeps == <<"approved", "awaiting", "queue">>

\* C16 (as claimed).  A tick that has ended has run all three sweeps, whether
\* or not one of them raised a fault.
C16_SweepsIsolated == (tick = "idle" /\ ran # <<>>) => ran = AllSweeps

\* C17.  One tick removes at most one request from the generation queue,
\* and a removal leaves the other requests queued in their order.
C17_OneRequestPerTick ==
  [][/\ tickTaken' <= 1
     /\ Len(queue') < Len(queue) => queue' = Tail(queue)]_vars

\* C17 witness: a tick that found two requests queued has ended; it took the
\* first and the second is still queued.
C17_Witness ==
  /\ tick = "idle"
  /\ ran = AllSweeps
  /\ tickTaken = 1
  /\ taken = <<1>>
  /\ Len(queue) = 1
  /\ queue[1].requestId = 2

\* C18.  Requests are taken for processing in the order they were enqueued:
\* the i-th request taken is the i-th request enqueued, and what is still
\* queued follows in enqueue order.
C18_TakenInEnqueueOrder ==
  /\ \A i \in DOMAIN taken : taken[i] = i
  /\ \A j \in DOMAIN queue : queue[j].requestId = Len(taken) + j

\* C18 witness: two requests for the same agent, both taken, the first by an
\* earlier tick than the second.
C18_Witness ==
  /\ taken = <<1, 2>>
  /\ tickTaken = 1
  /\ gens[2] # FreeGen

\* C19 (as claimed).  When the processing of a request taken from the queue
\* fails (the agent lookup yields nothing, or generation or persisting
\* throws), the agent's persisted status becomes error, agent:error is
\* emitted, and the request is not in the queue afterwards.
C19_FailedRequestIsError ==
  [][\A r \in 1..MaxRequests :
       (TickGetAgentNull(r) \/ TickCatch(r)) =>
         /\ otherAgent' = "error"
         /\ IoEv("agent:error", -1) \in Range(ioEmitted')
         /\ \A j \in DOMAIN queue' : queue'[j].requestId # r]_vars

\* C20 (as claimed).  As long as no datastore or provider call has failed,
\* the Plan is never recorded failed and the Agent never error.
C20_NeverFailedOrError == ~faulted => (dbPlan # "failed" /\ dbAgent # "error")

\* The request is waiting in the generation queue.
InQueue(r) == \E j \in DOMAIN queue : queue[j].requestId = r

C22_ThrowIsOneErrorEntry ==
  (gw.pc = "done" /\ gw.providerThrew) =>
    /\ outcome.kind = "error"
    /\ Len(gw.rows) = 1
    /\ gw.rows[1].status = "error"
    /\ gw.rows[1].tokensPrompt + gw.rows[1].tokensCompletion = 0
    /\ gw.rows[1].costUsd = 0

\* C23 (as claimed).  While the audit sink has accepted every write, and no
\* call is in progress, the Request Log has one row per reasoning-provider
\* call attempt (tool-path attempt, standard provider call, secondary direct
\* call of plan generation).
C23_OneEntryPerAttempt == (AllIdle /\ ~sinkFaulted) => Len(log) = attempts

\* Code execution is enabled and the Claude Code CLI was found at load time.
CodeExecution == env.enableCodeExecution /\ env.claudeCodeAvailable

\* The tool path was tried first where it is available; where it returned,
\* no adapter was called and its result is the caller's; where it threw or
\* is unavailable, exactly one standard provider call was made and its
\* result or error is the caller's.
ToolFirstThenStandard ==
  /\ CodeExecution => gw.toolTried
  /\ (gw.toolTried /\ ~gw.toolThrew) =>
       (gw.adapterCalls = <<>> /\ outcome = Returned("claude-code", gw.toolCalls))
  /\ (gw.toolThrew \/ ~CodeExecution) =>
       /\ Len(gw.adapterCalls) = 1
       /\ outcome.kind \in {"result", "error"}
       /\ outcome.by = gw.adapterCalls[1]

\* C24 (as claimed).  A finished Gateway call for a request that carries
\* tools or asks for tool execution tried the tool path first and, where that
\* was unavailable or threw, made exactly one standard provider call whose
\* result or error the caller has.
C24_ToolPathThenStandard_AnyRequest == (gw.pc = "done" /\ gw.requested) => ToolFirstThenStandard

\* C24 (amended).  The same, for a request whose selected provider has its
\* API key configured: without the key the Gateway throws before either path
\* is tried.  In such a call no adapter is called before the tool path threw.
C24_ToolPathThenStandard ==
  /\ (gw.pc = "done" /\ gw.requested /\ MissingKey(gw.provider) = "none") => ToolFirstThenStandard
  /\ (gw.requested /\ CodeExecution /\ gw.adapterCalls # <<>>) => gw.toolThrew

\* C24 witness: the tool path threw, one adapter was called, and its error is
\* what the caller has.
C24_Witness ==
  /\ gw.pc = "done"
  /\ gw.requested
  /\ gw.toolThrew
  /\ Len(gw.adapterCalls) = 1
  /\ outcome.kind = "error"
  /\ outcome.by = gw.adapterCalls[1]

C26_AllPathsFailedIsFailure ==
  (planGen.pc = "done" /\ planGen.result # "plan") => planGen.result = "failure"

\* C27 (as claimed).  When an execution dispatched by the Orchestrator in
\* which a provider call has failed finishes, the persisted Agent status is
\* error and the persisted Plan status is failed.
C27_ProviderFailureIsDurable ==
  [][\A q \in 1..MaxProcs :
       (FallbackAgentIdle(q) /\ q \in llmFailed) =>
         (dbAgent' = "error" /\ dbPlan' = "failed")]_vars

\* C28 (as claimed).  In every Plan of the Agent, a Step that has started has
\* every Step of lower position completed: Steps run in ascending position
\* order and no two of them at once.
C28_StepsInPositionOrder ==
  \A p \in DOMAIN plans : \A k \in DOMAIN plans[p].sst :
    plans[p].sst[k] # "pending" =>
      \A j \in DOMAIN plans[p].sst : Position(j) < Position(k) => plans[p].sst[j] = "completed"

\* C29.  A finished Gateway call that got past the API key check has no
\* logLLMRequest call in progress, and its caller has a result exactly if no
\* provider call threw, from the tool path if no adapter was called and from
\* the adapter otherwise: whether the writes of the row failed makes no
\* difference.
C29_LogFailureNeverPropagates ==
  (gw.pc = "done" /\ outcome.by # "config") =>
    /\ logger.pc = "idle"
    /\ outcome.kind = (IF gw.providerThrew THEN "error" ELSE "result")
    /\ outcome.by = (IF gw.adapterCalls = <<>> THEN "claude-code" ELSE gw.adapterCalls[1])

\* C29 witness: the provider call returned, both writes of its row failed,
\* and the caller has the result.
C29_Witness ==
  /\ gw.pc = "done"
  /\ outcome.kind = "result"
  /\ Len(logger.writes) = 2
  /\ ~logger.writes[2].ok
  /\ gw.rows = <<>>

\* C30.  A logLLMRequest call writes at most twice.  The second write is made
\* exactly when the first has failed; it has the id, operation, model, token
\* counts, cost and status of the first, a placeholder for the prompt, and the
\* first write's error as its error message.  After it, no write is made.
C30_OneMinimalRetry ==
  LET w == logger.writes
  IN /\ Len(w) <= 2
     /\ (Len(w) >= 1 /\ w[1].ok) => (Len(w) = 1 /\ logger.pc = "idle")
     /\ (Len(w) >= 1 /\ ~w[1].ok /\ logger.pc = "idle") => Len(w) = 2
     /\ (Len(w) = 2) =>
          /\ ~w[1].ok
          /\ logger.pc = "idle"
          /\ w[2].log.id = w[1].log.id
          /\ w[2].log.operation = w[1].log.operation
          /\ w[2].log.model = w[1].log.model
          /\ w[2].log.tokensPrompt = w[1].log.tokensPrompt
          /\ w[2].log.tokensCompletion = w[1].log.tokensCompletion
          /\ w[2].log.costUsd = w[1].log.costUsd
          /\ w[2].log.status = w[1].log.status
          /\ w[2].log.prompt # w[1].log.prompt
          /\ w[2].log.errorMessage = "Original save failed"

\* C30 witness: both writes of the row of a successful provider call failed.
C30_Witness ==
  /\ logger.pc = "idle"
  /\ Len(logger.writes) = 2
  /\ ~logger.writes[2].ok
  /\ logger.writes[1].log.status = "completed"
  /\ logger.writes[1].log.tokensPrompt > 0
  /\ log = <<>>

\* C31 (as claimed).  For a model name that is in no pricing table of a known
\* provider, calculateCost returns what it returns for that provider's
\* flagship model (gpt-4o, claude-3-sonnet) with the same token counts.
C31_UnknownModelCostsAsFlagship ==
  LET p == toLowerCase(priced.provider)
  IN /\ (p = "openai" /\ priced.model \notin DOMAIN openAIPricing) =>
          priced.costUsd = priced.inputTokens * 25 + priced.outputTokens * 100
     /\ (p = "anthropic" /\ priced.model \notin DOMAIN claudePricing) =>
          priced.costUsd = priced.inputTokens * 30 + priced.outputTokens * 150

\* C32 (as claimed).  When receiveCommand(text) has returned, the command of
\* the current Plan is text.
C32_PlanRecordsCommand == planned.text # NoCommand => planned.command = planned.text

\* C33.  An emit made while no transport is attached returns without
\* throwing, hands nothing to the transport, and logs one warning, for the
\* event it was called with.
C33_EmitWithoutTransportIsNoOp ==
  [][\A e \in EventNames :
       (Emit(e) /\ ~io) =>
         /\ lastEmit' = [event |-> e, threw |-> FALSE]
         /\ delivered' = delivered
         /\ warned' = Append(warned, e)]_vars

\* C33 witness: two emits were made before initialize, and nothing has been
\* delivered.
C33_Witness ==
  /\ ~io
  /\ Len(warned) = 2
  /\ delivered = <<>>
  /\ lastEmit.event = "plan:created"

\* C39 (as claimed).  The Steps of a Plan have pairwise distinct ids.
C39_StepIdsDistinct ==
  \A i, j \in DOMAIN planSteps : i # j => planSteps[i] # planSteps[j]

\* An executePlan call of the Agent has not returned yet.
ExecutionRunning == \E e \in DOMAIN execs : execs[e].pc # "free"

\* C38 (as claimed).  An executePlan call made while an earlier executePlan
\* call of the same Agent is still running throws and changes nothing.
C38_SecondExecuteRejected ==
  [][(ExecutePlan /\ ExecutionRunning) =>
       /\ lastCall' = Call("executePlan", FALSE)
       /\ UNCHANGED <<status, currentPlan, plans, pendingGen, execs>>]_vars

\* C34.  Each enqueued generation request is processed by at most one tick,
\* also when ticks overlap: no request id occurs twice among the requests
\* taken, a request that was taken is no longer in the queue, and no more
\* Plans are stored than requests were taken.
C34_EachRequestTakenOnce ==
  /\ \A i, j \in DOMAIN taken : taken[i] = taken[j] => i = j
  /\ \A i \in DOMAIN taken, j \in DOMAIN queue : taken[i] # queue[j].requestId
  /\ otherPlans <= Len(taken)

\* C34 witness: a tick took the second request while the tick that took the
\* first one was still awaiting generatePlan, and both are now awaiting it.
C34_Witness ==
  /\ taken = <<1, 2>>
  /\ gens[1] = "generate"
  /\ gens[2] = "generate"

\* C35 (as claimed).  Once the agent's newest Plan, generated for a command
\* that arrived during an execution, is awaiting approval, the end of that
\* execution does not reset the agent's persisted status to idle.
C35_CompletionKeepsNewerState ==
  [][(newerPlan = "awaiting_approval" /\ dbAgent = "awaiting_approval")
       => dbAgent' # "idle"]_vars

\* C36 (as claimed).  Between the return of stop() and the next start() no
\* request is taken from the queue and no execution is dispatched, also when
\* a tick was in progress when stop() was called.
C36_NothingRunsAfterStop ==
  [][~running => (taken' = taken /\ dispatched' = dispatched)]_vars

\* C37.  At most one timer is set, and one is set exactly when the processor
\* is running; a start() on a running processor sets no timer and begins no
\* tick, and after stop() no timer is set.
C37_OneTimerIffRunning ==
  /\ [](Cardinality(activeTimers) <= 1 /\ (activeTimers # {} <=> running))
  /\ [][(Start /\ running) => UNCHANGED <<activeTimers, intervalId, tick, ran, tickTaken>>]_vars
  /\ [][Stop => activeTimers' = {}]_vars

\* C37 witness: the processor was started, stopped and started again, and
\* start() is then called once more while it is running.
C37_Witness ==
  /\ lifeCall = LifeCall("start", FALSE)
  /\ running
  /\ activeTimers = {1}
  /\ Len(taken) > 0

=============================================================================
